---- MODULE Spec2Model ----
(***************************************************************************)
(* A model of nidhogg, the hardware abstraction layer for NAO V6 robots:   *)
(* the LoLA wire codec (nidhogg/src/backend/lola.rs), the typed data model *)
(* (nidhogg/src/types), the control message and its builder, the frame     *)
(* read/write path over the unix socket, and the connection retry loops.   *)
(*                                                                         *)
(* f32 values are opaque to every conversion modelled here (they are only  *)
(* moved between slots), so they are modelled as small integers.  Wire     *)
(* arrays are sequences: wire index i of the source is element i+1.        *)
(***************************************************************************)
EXTENDS Integers, Sequences, FiniteSets, TLC

VARIABLES
    \* ---- wire codec of the peripheral models (backend/lola.rs)
    kind,       \* the peripheral type under conversion, "none" when the codec is idle
    val,        \* the nidhogg value (a record of the type's fields)
    wire,       \* the LoLA array produced by from_nidhogg, << >> before it ran
    back,       \* the nidhogg value produced by from_lola, << >> before it ran
    cpc,        \* "build" | "encoded" | "decoded"
    nset,       \* number of field assignments made on val
    \* ---- connection retry loops (backend/mod.rs, backend/lola.rs, backends/lola.rs)
    retry_fn,       \* the retry function running, "none" when no connection is being made
    retry_count,    \* its argument retry_count
    retry_interval, \* its argument retry_interval
    ri,             \* the next value the range iterator of the for loop yields
    rpc,            \* "for" | "connect" | "check" | "sleep" | "returned" | "unreachable"
    maybe_backend,  \* the result of the last connect(): [ok, id], id the attempt's number
    result,         \* the value returned to the caller
    log,            \* what the transport and the clock saw: connects and sleeps, in order
    \* ---- frame I/O over the socket (backend/lola.rs, backends/lola.rs, src/lib.rs)
    io_backend, \* the connected backend type, "none" when there is no connection
    rx,         \* the bytes the robot sent and the backend has not read, as chunks
    buffer,     \* the 896-byte read buffer, as segments [src, n, parse]
    consumed,   \* bytes taken from the socket so far
    tx,         \* bytes the socket accepted so far
    io_pc,      \* "ready" | "panicked"
    io_res,     \* what the last call returned to its caller
    nops,       \* number of calls made on the backend
    io_hist,    \* the calls made so far: what each returned and the chunk it read
    \* ---- a JointArray and the calls made on it (types/joint_array.rs)
    joints,     \* the JointArray: a record of its 25 fields
    jwire,      \* the [T; 25] the codec made of it
    jres,       \* what the last call on it returned
    jn,         \* number of calls made on it
    jgroups,    \* the joint groups last taken from it
    jbuilder,   \* the JointArrayBuilder the groups were handed to
    jbuilt,     \* the JointArray that builder built
    \* ---- a control message, from its construction to the wire (lib.rs, builder.rs)
    types_src,  \* which definition of the types module is compiled in
    builder,    \* the NaoControlMessageBuilder: an Option per field
    msg,        \* the NaoControlMessage
    raw,        \* the LolaControlMsg made of it
    msrc,       \* how msg was made: "builder" | "default"
    mpc,        \* "start" | "builder" | "built" | "encoded"
    mn,         \* number of setter calls made on the builder
    \* ---- a struct of same-typed fields and the conversions made of it
    \*      (types/joint_array.rs, nidhogg_derive/src/iterable.rs)
    varr,       \* the struct: a JointArray, or a struct that derives Iterable
    vop,        \* the last call made on it, "" before the first
    varg,       \* the argument of that call: a slice, a closure, an array, an index
    vout,       \* what that call returned
    vn,         \* number of calls made
    vit,        \* the JointArrayField of the JointArrayIterator over it, "none" before iter()
    vyield      \* what the calls of next() on that iterator returned, in order

codecVars == <<kind, val, wire, back, cpc, nset>>

retryVars == <<retry_fn, retry_count, retry_interval, ri, rpc, maybe_backend, result, log>>

ioVars == <<io_backend, rx, buffer, consumed, tx, io_pc, io_res, nops, io_hist>>

jointVars == <<joints, jwire, jres, jn, jgroups, jbuilder, jbuilt>>

msgVars == <<types_src, builder, msg, raw, msrc, mpc, mn>>

viewVars == <<varr, vop, varg, vout, vn, vit, vyield>>

vars == <<codecVars, retryVars, ioVars, jointVars, msgVars, viewVars>>

\* what a step of one component leaves alone: the other components
codecOthers == <<retryVars, ioVars, jointVars, msgVars, viewVars>>

retryOthers == <<codecVars, ioVars, jointVars, msgVars, viewVars>>

ioOthers == <<codecVars, retryVars, jointVars, msgVars, viewVars>>

jointOthers == <<codecVars, retryVars, ioVars, msgVars, viewVars>>

msgOthers == <<codecVars, retryVars, ioVars, jointVars, viewVars>>

viewOthers == <<codecVars, retryVars, ioVars, jointVars, msgVars>>

\* ------------------------------------------------------------------ bounds

\* f32 intensities are drawn from 0..MaxVal
MaxVal == 1
\* at most MaxSet field assignments are made on a value before it is encoded
MaxSet == 2

\* retry_count is drawn from 0..MaxRetry
MaxRetry == 3
\* retry_interval is drawn from 1..MaxInterval (in units of time)
MaxInterval == 2

\* the robot sends at most MaxFrames whole frames before the stream ends
MaxFrames == 2
\* at most MaxOps calls are made on a connected backend
MaxOps == 3
\* at most MaxJointOps calls are made on a JointArray
MaxJointOps == 2
\* at most MaxMsgSet setters are called on a control-message builder
MaxMsgSet == 1
\* at most MaxViewOps conversions are made of a JointArray
MaxViewOps == 2
\* at most MaxNext calls of next() are made on an iterator over a JointArray
MaxNext == 27

Vals == 0..MaxVal

\* ------------------------------------------------------- typed peripherals

SkullFields ==
    {"left_front_0", "left_front_1", "left_middle_0", "left_rear_0",
     "left_rear_1", "left_rear_2", "right_front_0", "right_front_1",
     "right_middle_0", "right_rear_0", "right_rear_1", "right_rear_2"}

\* Skull::default(): derive(Default), every f32 is 0.0
Skull_default == [f \in SkullFields |-> 0]

RgbChannels == {"red", "green", "blue"}

\* Rgb::<f32>::default()
Rgb_default == [red |-> 0, green |-> 0, blue |-> 0]

RightEyeFields == {"r0", "r1", "r2", "r3", "r4", "r5", "r6", "r7"}

\* RightEye::default()
RightEye_default == [f \in RightEyeFields |-> Rgb_default]

\* -------------------------------------------------------------- wire codec

SkullByBlocks(value) ==
    << value.left_front_0, value.left_front_1, value.left_middle_0,
       value.left_rear_0, value.left_rear_1, value.left_rear_2,
       value.right_front_0, value.right_front_1, value.right_middle_0,
       value.right_rear_0, value.right_rear_1, value.right_rear_2 >>

\* impl FromNidhogg<Skull> for [f32; 12]
Skull_from_nidhogg(value) ==
    << value.left_front_0,
       value.left_front_1,
       value.left_middle_0,
       value.left_rear_0,
       value.left_rear_1,
       value.left_rear_2,
       value.right_rear_2,
       value.right_rear_1,
       value.right_rear_0,
       value.right_middle_0,
       value.right_front_0,
       value.right_front_1 >>

\* impl FromLoLA<[f32; 12]> for Skull: the array pattern binds the first slot
\* to left_front_1 and the second to left_front_0
Skull_from_lola(value) ==
    LET left_front_1   == value[1]
        left_front_0   == value[2]
        left_middle_0  == value[3]
        left_rear_0    == value[4]
        left_rear_1    == value[5]
        left_rear_2    == value[6]
        right_rear_2   == value[7]
        right_rear_1   == value[8]
        right_rear_0   == value[9]
        right_middle_0 == value[10]
        right_front_0  == value[11]
        right_front_1  == value[12]
    IN  [ left_front_0   |-> left_front_0,
          left_front_1   |-> left_front_1,
          left_middle_0  |-> left_middle_0,
          left_rear_0    |-> left_rear_0,
          left_rear_1    |-> left_rear_1,
          left_rear_2    |-> left_rear_2,
          right_front_0  |-> right_front_0,
          right_front_1  |-> right_front_1,
          right_middle_0 |-> right_middle_0,
          right_rear_0   |-> right_rear_0,
          right_rear_1   |-> right_rear_1,
          right_rear_2   |-> right_rear_2 ]

\* impl FromNidhogg<RightEye> for [f32; 24]: reds, greens, blues, each block
\* in the LED order r0, r7, r6, r5, r4, r3, r2, r1
RightEye_from_nidhogg(value) ==
    << value.r0.red,   value.r7.red,   value.r6.red,   value.r5.red,
       value.r4.red,   value.r3.red,   value.r2.red,   value.r1.red,
       value.r0.green, value.r7.green, value.r6.green, value.r5.green,
       value.r4.green, value.r3.green, value.r2.green, value.r1.green,
       value.r0.blue,  value.r7.blue,  value.r6.blue,  value.r5.blue,
       value.r4.blue,  value.r3.blue,  value.r2.blue,  value.r1.blue >>

\* impl FromLoLA<[f32; 24]> for RightEye: the array pattern binds each block
\* in the LED order r7, r6, r5, r4, r3, r2, r1, r0
RightEye_from_lola(value) ==
    LET r7_r == value[1]   r6_r == value[2]   r5_r == value[3]   r4_r == value[4]
        r3_r == value[5]   r2_r == value[6]   r1_r == value[7]   r0_r == value[8]
        r7_g == value[9]   r6_g == value[10]  r5_g == value[11]  r4_g == value[12]
        r3_g == value[13]  r2_g == value[14]  r1_g == value[15]  r0_g == value[16]
        r7_b == value[17]  r6_b == value[18]  r5_b == value[19]  r4_b == value[20]
        r3_b == value[21]  r2_b == value[22]  r1_b == value[23]  r0_b == value[24]
    IN  [ r0 |-> [red |-> r0_r, green |-> r0_g, blue |-> r0_b],
          r1 |-> [red |-> r1_r, green |-> r1_g, blue |-> r1_b],
          r2 |-> [red |-> r2_r, green |-> r2_g, blue |-> r2_b],
          r3 |-> [red |-> r3_r, green |-> r3_g, blue |-> r3_b],
          r4 |-> [red |-> r4_r, green |-> r4_g, blue |-> r4_b],
          r5 |-> [red |-> r5_r, green |-> r5_g, blue |-> r5_b],
          r6 |-> [red |-> r6_r, green |-> r6_g, blue |-> r6_b],
          r7 |-> [red |-> r7_r, green |-> r7_g, blue |-> r7_b] ]

\* ---------------------------------------------------------- idle components

\* no peripheral value is being converted
IdleCodec ==
    /\ kind = "none"
    /\ val = << >>
    /\ wire = << >>
    /\ back = << >>
    /\ cpc = "idle"
    /\ nset = 0

\* no connection is being made
IdleRetry ==
    /\ retry_fn = "none"
    /\ retry_count = 0
    /\ retry_interval = 0
    /\ ri = 0
    /\ rpc = "idle"
    /\ maybe_backend = << >>
    /\ result = << >>
    /\ log = << >>

\* nothing is connected
IdleIO ==
    /\ io_backend = "none"
    /\ rx = << >>
    /\ buffer = << >>
    /\ consumed = 0
    /\ tx = 0
    /\ io_pc = "idle"
    /\ io_res = << >>
    /\ nops = 0
    /\ io_hist = << >>

\* no JointArray has been made
IdleJoint ==
    /\ joints = << >>
    /\ jwire = << >>
    /\ jres = << >>
    /\ jn = 0
    /\ jgroups = << >>
    /\ jbuilder = << >>
    /\ jbuilt = << >>

\* no control message is under construction
IdleMsg ==
    /\ types_src = "none"
    /\ builder = << >>
    /\ msg = << >>
    /\ raw = << >>
    /\ msrc = "none"
    /\ mpc = "idle"
    /\ mn = 0

\* no JointArray is being converted
IdleViews ==
    /\ varr = << >>
    /\ vop = ""
    /\ varg = << >>
    /\ vout = << >>
    /\ vn = 0
    /\ vit = "none"
    /\ vyield = << >>

\* ------------------------------------------------------- connection retries

\* the three retry loops with the same body: the trait's default method, the
\* socket-path variant and the inherent method of the earlier backend (the loop of
\* Nao::connect_retry, which differs, follows them)
RetryFns ==
    {"ConnectWithRetryExt::connect_with_retry",
     "LolaBackend::connect_with_path_with_retry",
     "LolaBackend::connect_with_retry"}

\* connect(): Result<Self>; a backend or an error, tagged with the attempt that made it
ConnectResult(ok, attempt) == [ok |-> ok, id |-> attempt]

ConnectEvent(ok, attempt) == [op |-> "connect", ok |-> ok, arg |-> attempt]

SleepEvent(d) == [op |-> "sleep", ok |-> TRUE, arg |-> d]

\* the connects made so far
Connects == SelectSeq(log, LAMBDA e : e.op = "connect")

\* the sleeps made so far
Sleeps == SelectSeq(log, LAMBDA e : e.op = "sleep")

RangeExclusive(n) == 0..(n - 1)

\* for i in 0..=retry_count
RetryRange(n) == 0..n

ReturnsOnlyOnLastTry(mb, i, n) == i = n

ReturnsOnlyOnSuccess(mb, i, n) == mb.ok

\* if maybe_backend.is_ok() || i == retry_count { return maybe_backend; }
ReturnsNow(mb, i, n) == mb.ok \/ i = n

\* thread::sleep(retry_interval)
SleepDuration(interval) == interval

\* the retry loop of the earliest crate (src/lib.rs)
NaoRetryFn == "Nao::connect_retry"

\* for i in 0..retry_count
NaoRetryRange(n) == 0..(n - 1)

\* match Self::connect() {
\*     sock if sock.is_ok() => return sock,
\*     Err(e) if try_number == retry_count => return Err(e),
\*     _ => (),
\* }                                         with try_number = i + 1
NaoReturnsNow(mb, i, n) == mb.ok \/ (~mb.ok /\ i + 1 = n)

\* every retry function
AllRetryFns == RetryFns \cup {NaoRetryFn}

\* the range the for loop of fn runs over
RangeOf(fn, n) == IF fn = NaoRetryFn THEN NaoRetryRange(n) ELSE RetryRange(n)

\* whether the body of the loop of fn returns after this connect()
ReturnsNowOf(fn, mb, i, n) ==
    IF fn = NaoRetryFn THEN NaoReturnsNow(mb, i, n) ELSE ReturnsNow(mb, i, n)

InitRetry ==
    /\ retry_fn \in AllRetryFns
    /\ retry_count \in 0..MaxRetry
    /\ retry_interval \in 1..MaxInterval
    /\ ri = 0
    /\ rpc = "for"
    /\ maybe_backend = << >>
    /\ result = << >>
    /\ log = << >>
    /\ IdleCodec
    /\ IdleIO
    /\ IdleJoint
    /\ IdleMsg
    /\ IdleViews

\* the for loop asks its range for the next i; a drained range leaves the loop,
\* and the statement after the loop is unreachable!()
RetryFor ==
    /\ rpc = "for"
    /\ \/ /\ ri \in RangeOf(retry_fn, retry_count)
          /\ rpc' = "connect"
       \/ /\ ri \notin RangeOf(retry_fn, retry_count)
          /\ rpc' = "unreachable"
    /\ UNCHANGED <<retry_fn, retry_count, retry_interval, ri, maybe_backend, result, log>>
    /\ UNCHANGED retryOthers

\* let maybe_backend = Self::connect();  (Self::connect_with_path(socket_path))
\* the socket decides whether the attempt succeeds
RetryConnect ==
    /\ rpc = "connect"
    /\ \E ok \in BOOLEAN :
          /\ maybe_backend' = ConnectResult(ok, Len(Connects) + 1)
          /\ log' = Append(log, ConnectEvent(ok, Len(Connects) + 1))
    /\ rpc' = "check"
    /\ UNCHANGED <<retry_fn, retry_count, retry_interval, ri, result>>
    /\ UNCHANGED retryOthers

\* We connected or this was the last try
RetryCheck ==
    /\ rpc = "check"
    /\ \/ /\ ReturnsNowOf(retry_fn, maybe_backend, ri, retry_count)
          /\ result' = maybe_backend
          /\ rpc' = "returned"
       \/ /\ ~ReturnsNowOf(retry_fn, maybe_backend, ri, retry_count)
          /\ rpc' = "sleep"
          /\ UNCHANGED result
    /\ UNCHANGED <<retry_fn, retry_count, retry_interval, ri, maybe_backend, log>>
    /\ UNCHANGED retryOthers

\* thread::sleep(retry_interval); then the loop body ends and i advances
RetrySleep ==
    /\ rpc = "sleep"
    /\ log' = Append(log, SleepEvent(SleepDuration(retry_interval)))
    /\ ri' = ri + 1
    /\ rpc' = "for"
    /\ UNCHANGED <<retry_fn, retry_count, retry_interval, maybe_backend, result>>
    /\ UNCHANGED retryOthers

NextRetry ==
    \/ RetryFor
    \/ RetryConnect
    \/ RetryCheck
    \/ RetrySleep

SpecRetry == InitRetry /\ [][NextRetry]_vars

\* the loop is sequential blocking code: connect() and sleep() return, and the
\* next statement runs
SpecRetryFair == SpecRetry /\ WF_vars(NextRetry)

\* ---------------------------------------------------------------- frame I/O

\* const LOLA_BUFFER_SIZE: usize = 896
LOLA_BUFFER_SIZE == 896

\* the capacity BufWriter::new gives its buffer
BufWriterCapacity == 8192

\* bytes of the MessagePack map write_named produces for a LolaControlMsg: the map
\* header, eleven field names (fixstr), and per field an array header (1 byte up to
\* 15 elements, 3 bytes above) and its elements (f32: 5 bytes, bool: 1 byte)
ControlMsgLen ==
    1 + (9 + 10 + 5 + 5 + 6 + 5 + 5 + 6 + 6 + 6 + 6)
      + 2 * (3 + 25 * 5) + 2 * (1 + 10 * 5) + 3 * (1 + 3 * 5)
      + 2 * (3 + 24 * 5) + (1 + 12 * 5) + (1 + 2 * 1)

\* the three wrappers of the socket
IoBackends == {"backend::LolaBackend", "backends::LolaBackend", "Nao"}

\* a whole frame, well-formed MessagePack of the expected shape or not
Frame(id, parse) == [len |-> LOLA_BUFFER_SIZE, parse |-> parse, id |-> id]

\* the bytes of a frame cut short by the end of the stream
ShortChunk(id, len) == [len |-> len, parse |-> "bad", id |-> id]

\* how many bytes of a cut frame arrive
ShortLens == {1, LOLA_BUFFER_SIZE - 1}

\* what the robot may send: up to MaxFrames whole frames, then possibly part of
\* one more, then the end of the stream
Streams ==
    { [k \in 1..n |-> Frame(k, ps[k])] \o tail :
        n \in 0..MaxFrames,
        ps \in [1..MaxFrames -> {"ok", "bad"}],
        tail \in {<< >>} \cup { <<ShortChunk(MaxFrames + 1, l)>> : l \in ShortLens } }

\* what the next read_exact on the stream s is served from: the chunk at its head
NextChunk(s) == IF s = << >> THEN << >> ELSE << Head(s) >>

\* let mut buf = [0; LOLA_BUFFER_SIZE]  /  buffer: [0; 896]
ZeroBuffer == << [src |-> 0, n |-> LOLA_BUFFER_SIZE, parse |-> "bad"] >>

\* a read that returns one byte before the buffer is full
ReadExactLeavingLastByte(buf, s) ==
    IF s # << >> /\ Head(s).len = LOLA_BUFFER_SIZE
    THEN [ buf    |-> << [src |-> Head(s).id, n |-> LOLA_BUFFER_SIZE, parse |-> Head(s).parse] >>,
           stream |-> Tail(s),
           ok     |-> TRUE,
           n      |-> LOLA_BUFFER_SIZE - 1 ]
    ELSE [ buf |-> buf, stream |-> << >>, ok |-> FALSE, n |-> IF s = << >> THEN 0 ELSE Head(s).len ]

\* Read::read_exact(buf) on the stream s: fills buf from a whole frame, or takes what
\* is left before the end of the stream and fails with UnexpectedEof
ReadExact(buf, s) ==
    IF s # << >> /\ Head(s).len = LOLA_BUFFER_SIZE
    THEN [ buf    |-> << [src |-> Head(s).id, n |-> LOLA_BUFFER_SIZE, parse |-> Head(s).parse] >>,
           stream |-> Tail(s),
           ok     |-> TRUE,
           n      |-> LOLA_BUFFER_SIZE ]
    ELSE LET got == IF s = << >> THEN 0 ELSE Head(s).len
         IN  [ buf    |-> IF got = 0
                          THEN buf
                          ELSE << [src |-> Head(s).id, n |-> got, parse |-> "bad"],
                                  [buf[1] EXCEPT !.n = LOLA_BUFFER_SIZE - got] >>,
               stream |-> << >>,
               ok     |-> FALSE,
               n      |-> got ]

\* rmp_serde::from_slice on the buffer: the frame it holds parses or does not
FromSlice(buf) ==
    IF Len(buf) = 1 /\ buf[1].parse = "ok"
    THEN [ok |-> TRUE, frame |-> buf[1].src]
    ELSE [ok |-> FALSE, frame |-> 0]

\* what the caller gets
IoResult(op, outcome, err, frame, took, truncated, wrote, write_failed) ==
    [ op |-> op, outcome |-> outcome, err |-> err, frame |-> frame, took |-> took,
      truncated |-> truncated, wrote |-> wrote, write_failed |-> write_failed ]

\* what a failed read_exact becomes: `?` converts the io::Error (From: NoLoLAConnection
\* in nidhogg/src/error.rs, IOError in src/error.rs); the earlier backend unwraps it
ReadFailure(backend) ==
    CASE backend = "backend::LolaBackend"  -> "NoLoLAConnection"
      [] backend = "backends::LolaBackend" -> "panic"
      [] backend = "Nao"                   -> "IOError"

\* a frame read that leaves a frame it could not parse at the head of the stream
ReadFrameKeepingBadFrame(backend, buf, s) ==
    LET r == ReadExact(buf, s)
        d == FromSlice(r.buf)
    IN  [ buf     |-> r.buf,
          stream  |-> IF r.ok /\ ~d.ok THEN s ELSE r.stream,
          took    |-> r.n,
          truncated |-> ~r.ok,
          outcome |-> IF ~r.ok
                      THEN (IF ReadFailure(backend) = "panic" THEN "panic" ELSE "Err")
                      ELSE (IF d.ok THEN "Ok" ELSE "Err"),
          err     |-> IF ~r.ok THEN ReadFailure(backend)
                      ELSE (IF d.ok THEN "" ELSE "MsgPackDecodeError"),
          frame   |-> IF r.ok /\ d.ok THEN d.frame ELSE 0 ]

\* read_lola_nao_state / read_raw: one read_exact of the whole buffer, then from_slice
ReadFrame(backend, buf, s) ==
    LET r == ReadExact(buf, s)
        d == FromSlice(r.buf)
    IN  [ buf     |-> r.buf,
          stream  |-> r.stream,
          took    |-> r.n,
          truncated |-> ~r.ok,
          outcome |-> IF ~r.ok
                      THEN (IF ReadFailure(backend) = "panic" THEN "panic" ELSE "Err")
                      ELSE (IF d.ok THEN "Ok" ELSE "Err"),
          err     |-> IF ~r.ok THEN ReadFailure(backend)
                      ELSE (IF d.ok THEN "" ELSE "MsgPackDecodeError"),
          frame   |-> IF r.ok /\ d.ok THEN d.frame ELSE 0 ]

\* BufWriter::new(&mut self.0)
BufWriter_new == [buffered |-> 0]

\* BufWriter::flush_buf: hands the buffered bytes to the socket
BufWriter_flush_buf(bw, sockOk) ==
    IF bw.buffered = 0 THEN [bw |-> bw, ok |-> TRUE, wrote |-> 0]
    ELSE IF sockOk THEN [bw |-> [bw EXCEPT !.buffered = 0], ok |-> TRUE, wrote |-> bw.buffered]
    ELSE [bw |-> bw, ok |-> FALSE, wrote |-> 0]

\* BufWriter::write_all of n bytes: they are copied into the buffer when they fit;
\* otherwise the buffer is flushed first, and n >= capacity goes to the socket directly
BufWriter_write_all(bw, n, sockOk) ==
    IF n < BufWriterCapacity - bw.buffered
    THEN [bw |-> [bw EXCEPT !.buffered = @ + n], ok |-> TRUE, wrote |-> 0]
    ELSE LET f == IF n > BufWriterCapacity - bw.buffered
                  THEN BufWriter_flush_buf(bw, sockOk)
                  ELSE [bw |-> bw, ok |-> TRUE, wrote |-> 0]
         IN  IF ~f.ok THEN [bw |-> f.bw, ok |-> FALSE, wrote |-> 0]
             ELSE IF n >= BufWriterCapacity
                  THEN (IF sockOk THEN [bw |-> f.bw, ok |-> TRUE, wrote |-> f.wrote + n]
                                  ELSE [bw |-> f.bw, ok |-> FALSE, wrote |-> f.wrote])
                  ELSE [bw |-> [f.bw EXCEPT !.buffered = @ + n], ok |-> TRUE, wrote |-> f.wrote]

\* impl Drop for BufWriter: let _r = self.flush_buf(): the result is dropped
BufWriter_drop(bw, sockOk) == BufWriter_flush_buf(bw, sockOk).wrote

\* let mut buf = BufWriter::new(&mut self.0);
\* encode::write_named(&mut buf, &raw).map_err(Error::MsgPackEncodeError)
\* and buf is dropped when the function returns
WriteNamed(n, sockOk) ==
    LET w == BufWriter_write_all(BufWriter_new, n, sockOk)
    IN  [ ok    |-> w.ok,
          wrote |-> w.wrote + BufWriter_drop(w.bw, sockOk) ]

InitIO ==
    /\ io_backend \in IoBackends
    /\ rx \in Streams
    /\ buffer = ZeroBuffer
    /\ consumed = 0
    /\ tx = 0
    /\ io_pc = "ready"
    /\ io_res = << >>
    /\ nops = 0
    /\ io_hist = << >>
    /\ IdleCodec
    /\ IdleRetry
    /\ IdleJoint
    /\ IdleMsg
    /\ IdleViews

\* send_control_msg(control_msg) / write_update(update); the socket takes the bytes
\* handed to it, or fails the write with an I/O error
SendControlMsg ==
    /\ io_pc = "ready"
    /\ nops < MaxOps
    /\ \E sockOk \in BOOLEAN :
          LET w == WriteNamed(ControlMsgLen, sockOk)
          IN  /\ tx' = tx + w.wrote
              /\ io_res' = IoResult("send_control_msg",
                                    IF w.ok THEN "Ok" ELSE "Err",
                                    IF w.ok THEN "" ELSE "MsgPackEncodeError",
                                    0, 0, FALSE, w.wrote, ~sockOk)
    /\ io_hist' = Append(io_hist, [res |-> io_res', chunk |-> << >>])
    /\ nops' = nops + 1
    /\ UNCHANGED <<io_backend, rx, buffer, consumed, io_pc>>
    /\ UNCHANGED ioOthers

\* read_nao_state() / read_state(): a fresh local buffer (the field self.buffer of
\* Nao), one frame read, the state built from it
ReadNaoState ==
    /\ io_pc = "ready"
    /\ nops < MaxOps
    /\ LET r == ReadFrame(io_backend, IF io_backend = "Nao" THEN buffer ELSE ZeroBuffer, rx)
       IN  /\ rx' = r.stream
           /\ buffer' = IF io_backend = "Nao" THEN r.buf ELSE ZeroBuffer
           /\ consumed' = consumed + r.took
           /\ io_pc' = IF r.outcome = "panic" THEN "panicked" ELSE "ready"
           /\ io_res' = IoResult("read_nao_state", r.outcome, r.err, r.frame, r.took,
                                 r.truncated, 0, FALSE)
    /\ io_hist' = Append(io_hist, [res |-> io_res', chunk |-> NextChunk(rx)])
    /\ nops' = nops + 1
    /\ UNCHANGED <<io_backend, tx>>
    /\ UNCHANGED ioOthers

\* read_hardware_info(): a frame read of its own, the RobotConfig strings taken from it
ReadHardwareInfo ==
    /\ io_pc = "ready"
    /\ nops < MaxOps
    /\ LET r == ReadFrame(io_backend, IF io_backend = "Nao" THEN buffer ELSE ZeroBuffer, rx)
       IN  /\ rx' = r.stream
           /\ buffer' = IF io_backend = "Nao" THEN r.buf ELSE ZeroBuffer
           /\ consumed' = consumed + r.took
           /\ io_pc' = IF r.outcome = "panic" THEN "panicked" ELSE "ready"
           /\ io_res' = IoResult("read_hardware_info", r.outcome, r.err, r.frame, r.took,
                                 r.truncated, 0, FALSE)
    /\ io_hist' = Append(io_hist, [res |-> io_res', chunk |-> NextChunk(rx)])
    /\ nops' = nops + 1
    /\ UNCHANGED <<io_backend, tx>>
    /\ UNCHANGED ioOthers

NextIO ==
    \/ SendControlMsg
    \/ ReadNaoState
    \/ ReadHardwareInfo

SpecIO == InitIO /\ [][NextIO]_vars

\* ---------------------------------------------------------------- JointArray

\* pub struct JointArray<T>: the fields, in declaration order
JointArrayFields ==
    << "head_yaw", "head_pitch",
       "left_shoulder_pitch", "left_shoulder_roll", "left_elbow_yaw", "left_elbow_roll",
       "left_wrist_yaw",
       "left_hip_yaw_pitch", "left_hip_roll", "left_hip_pitch", "left_knee_pitch",
       "left_ankle_pitch", "left_ankle_roll",
       "right_shoulder_pitch", "right_shoulder_roll", "right_elbow_yaw", "right_elbow_roll",
       "right_wrist_yaw",
       "right_hip_roll", "right_hip_pitch", "right_knee_pitch", "right_ankle_pitch",
       "right_ankle_roll",
       "left_hand", "right_hand" >>

JointNames == { JointArrayFields[k] : k \in 1..Len(JointArrayFields) }

\* FillExt::fill(value)
JointArray_fill(value) == [f \in JointNames |-> value]

\* the match of get: the field an index refers to, None from 25 on
JointArray_get(index) ==
    CASE index = 0  -> [some |-> TRUE, field |-> "head_yaw"]
      [] index = 1  -> [some |-> TRUE, field |-> "head_pitch"]
      [] index = 2  -> [some |-> TRUE, field |-> "left_shoulder_pitch"]
      [] index = 3  -> [some |-> TRUE, field |-> "left_shoulder_roll"]
      [] index = 4  -> [some |-> TRUE, field |-> "left_elbow_yaw"]
      [] index = 5  -> [some |-> TRUE, field |-> "left_elbow_roll"]
      [] index = 6  -> [some |-> TRUE, field |-> "left_wrist_yaw"]
      [] index = 7  -> [some |-> TRUE, field |-> "left_hip_yaw_pitch"]
      [] index = 8  -> [some |-> TRUE, field |-> "left_hip_roll"]
      [] index = 9  -> [some |-> TRUE, field |-> "left_hip_pitch"]
      [] index = 10 -> [some |-> TRUE, field |-> "left_knee_pitch"]
      [] index = 11 -> [some |-> TRUE, field |-> "left_ankle_pitch"]
      [] index = 12 -> [some |-> TRUE, field |-> "left_ankle_roll"]
      [] index = 13 -> [some |-> TRUE, field |-> "right_shoulder_pitch"]
      [] index = 14 -> [some |-> TRUE, field |-> "right_shoulder_roll"]
      [] index = 15 -> [some |-> TRUE, field |-> "right_elbow_yaw"]
      [] index = 16 -> [some |-> TRUE, field |-> "right_elbow_roll"]
      [] index = 17 -> [some |-> TRUE, field |-> "right_wrist_yaw"]
      [] index = 18 -> [some |-> TRUE, field |-> "right_hip_roll"]
      [] index = 19 -> [some |-> TRUE, field |-> "right_hip_pitch"]
      [] index = 20 -> [some |-> TRUE, field |-> "right_knee_pitch"]
      [] index = 21 -> [some |-> TRUE, field |-> "right_ankle_pitch"]
      [] index = 22 -> [some |-> TRUE, field |-> "right_ankle_roll"]
      [] index = 23 -> [some |-> TRUE, field |-> "left_hand"]
      [] index = 24 -> [some |-> TRUE, field |-> "right_hand"]
      [] OTHER      -> [some |-> FALSE, field |-> ""]

\* an index past the end taken as the last slot
JointArrayGetClamped(index) ==
    IF index > 24 THEN JointArray_get(24) ELSE JointArray_get(index)

\* the match of get_mut: the field an index refers to, None from 25 on
JointArray_get_mut(index) ==
    CASE index = 0  -> [some |-> TRUE, field |-> "head_yaw"]
      [] index = 1  -> [some |-> TRUE, field |-> "head_pitch"]
      [] index = 2  -> [some |-> TRUE, field |-> "left_shoulder_pitch"]
      [] index = 3  -> [some |-> TRUE, field |-> "left_shoulder_roll"]
      [] index = 4  -> [some |-> TRUE, field |-> "left_elbow_yaw"]
      [] index = 5  -> [some |-> TRUE, field |-> "left_elbow_roll"]
      [] index = 6  -> [some |-> TRUE, field |-> "left_wrist_yaw"]
      [] index = 7  -> [some |-> TRUE, field |-> "left_hip_yaw_pitch"]
      [] index = 8  -> [some |-> TRUE, field |-> "left_hip_roll"]
      [] index = 9  -> [some |-> TRUE, field |-> "left_hip_pitch"]
      [] index = 10 -> [some |-> TRUE, field |-> "left_knee_pitch"]
      [] index = 11 -> [some |-> TRUE, field |-> "left_ankle_pitch"]
      [] index = 12 -> [some |-> TRUE, field |-> "left_ankle_roll"]
      [] index = 13 -> [some |-> TRUE, field |-> "right_shoulder_pitch"]
      [] index = 14 -> [some |-> TRUE, field |-> "right_shoulder_roll"]
      [] index = 15 -> [some |-> TRUE, field |-> "right_elbow_yaw"]
      [] index = 16 -> [some |-> TRUE, field |-> "right_elbow_roll"]
      [] index = 17 -> [some |-> TRUE, field |-> "right_wrist_yaw"]
      [] index = 18 -> [some |-> TRUE, field |-> "right_hip_roll"]
      [] index = 19 -> [some |-> TRUE, field |-> "right_hip_pitch"]
      [] index = 20 -> [some |-> TRUE, field |-> "right_knee_pitch"]
      [] index = 21 -> [some |-> TRUE, field |-> "right_ankle_pitch"]
      [] index = 22 -> [some |-> TRUE, field |-> "right_ankle_roll"]
      [] index = 23 -> [some |-> TRUE, field |-> "left_hand"]
      [] index = 24 -> [some |-> TRUE, field |-> "right_hand"]
      [] OTHER      -> [some |-> FALSE, field |-> ""]

\* FromNidhogg<JointArray<T>> for [T; 25]: the field the codec puts in each slot
JointArrayWireOrder ==
    << "head_yaw", "head_pitch",
       "left_shoulder_pitch", "left_shoulder_roll", "left_elbow_yaw", "left_elbow_roll",
       "left_wrist_yaw",
       "left_hip_yaw_pitch", "left_hip_roll", "left_hip_pitch", "left_knee_pitch",
       "left_ankle_pitch", "left_ankle_roll",
       "right_hip_roll", "right_hip_pitch", "right_knee_pitch", "right_ankle_pitch",
       "right_ankle_roll",
       "right_shoulder_pitch", "right_shoulder_roll", "right_elbow_yaw", "right_elbow_roll",
       "right_wrist_yaw",
       "left_hand", "right_hand" >>

JointArrayAsDeclared(value) ==
    [k \in 1..Len(JointArrayFields) |-> value[JointArrayFields[k]]]

JointArray_from_nidhogg(value) ==
    [k \in 1..Len(JointArrayWireOrder) |-> value[JointArrayWireOrder[k]]]

\* the indices the callers try: every slot and the first one past the end
JointIndices == 0..Len(JointArrayFields)

\* what a call on the JointArray gave back: the field referred to and its value
JointResult(op, index, r, value) ==
    [op |-> op, index |-> index, some |-> r.some, field |-> r.field, value |-> value]


\* ----------------------------------------------------------- control message

LeftEarFields == {"l0", "l1", "l2", "l3", "l4", "l5", "l6", "l7", "l8", "l9"}

RightEarFields == {"r0", "r1", "r2", "r3", "r4", "r5", "r6", "r7", "r8", "r9"}

LeftEyeFields == {"l0", "l1", "l2", "l3", "l4", "l5", "l6", "l7"}

\* derive(Filler): every field gets the value
LeftEar_fill(value) == [f \in LeftEarFields |-> value]

RightEar_fill(value) == [f \in RightEarFields |-> value]

LeftEye_fill(value) == [f \in LeftEyeFields |-> value]

RightEye_fill(value) == [f \in RightEyeFields |-> value]

Skull_fill(value) == [f \in SkullFields |-> value]

\* derive(Default)
LeftEar_default == LeftEar_fill(0)

RightEar_default == RightEar_fill(0)

LeftEye_default == LeftEye_fill(Rgb_default)

JointArray_default == JointArray_fill(0)

\* the two definitions of the types module in the tree
TypesSources == {"types/mod.rs", "types.rs"}

SonarEnabledAlwaysOn(src) == [left |-> TRUE, right |-> TRUE]

\* SonarEnabled::default(): derived in types/mod.rs (false, false); written out in
\* types.rs (left: true, right: true)
SonarEnabled_default(src) ==
    IF src = "types.rs"
    THEN [left |-> TRUE, right |-> TRUE]
    ELSE [left |-> FALSE, right |-> FALSE]

\* impl FromNidhogg<LeftEar> for [f32; 10]
LeftEar_from_nidhogg(value) ==
    << value.l0, value.l1, value.l2, value.l3, value.l4, value.l5, value.l6, value.l7,
       value.l8, value.l9 >>

RightEarUnmirrored(value) ==
    << value.r0, value.r1, value.r2, value.r3, value.r4, value.r5, value.r6, value.r7,
       value.r8, value.r9 >>

\* impl FromNidhogg<RightEar> for [f32; 10]
RightEar_from_nidhogg(value) ==
    << value.r9, value.r8, value.r7, value.r6, value.r5, value.r4, value.r3, value.r2,
       value.r1, value.r0 >>

\* impl FromNidhogg<RgbF32> for [f32; 3]
Rgb_from_nidhogg(value) == << value.red, value.green, value.blue >>

LeftEyeInterleaved(value) ==
    << value.l7.red, value.l7.green, value.l7.blue, value.l0.red, value.l0.green, value.l0.blue,
       value.l1.red, value.l1.green, value.l1.blue, value.l2.red, value.l2.green, value.l2.blue,
       value.l3.red, value.l3.green, value.l3.blue, value.l4.red, value.l4.green, value.l4.blue,
       value.l5.red, value.l5.green, value.l5.blue, value.l6.red, value.l6.green, value.l6.blue >>

\* impl FromNidhogg<LeftEye> for [f32; 24]: reds, greens, blues, each block in the
\* LED order l7, l0, l1, l2, l3, l4, l5, l6
LeftEye_from_nidhogg(value) ==
    << value.l7.red,   value.l0.red,   value.l1.red,   value.l2.red,
       value.l3.red,   value.l4.red,   value.l5.red,   value.l6.red,
       value.l7.green, value.l0.green, value.l1.green, value.l2.green,
       value.l3.green, value.l4.green, value.l5.green, value.l6.green,
       value.l7.blue,  value.l0.blue,  value.l1.blue,  value.l2.blue,
       value.l3.blue,  value.l4.blue,  value.l5.blue,  value.l6.blue >>

\* impl FromNidhogg<SonarEnabled> for [bool; 2]
SonarEnabled_from_nidhogg(value) == << value.left, value.right >>

\* pub struct NaoControlMessage: the fields
MessageFields ==
    {"position", "stiffness", "sonar", "left_ear", "right_ear", "chest",
     "left_eye", "right_eye", "left_foot", "right_foot", "skull"}

\* the position Default for NaoControlMessage fills in
PositionSentinel == -1

RgbVals == [RgbChannels -> Vals]

JointArrayVals == { JointArray_fill(v) : v \in Vals \cup {PositionSentinel} }

\* the values the callers hand to the setters
FieldValues(f) ==
    CASE f \in {"position", "stiffness"}           -> JointArrayVals
      [] f = "sonar"                               -> [left : BOOLEAN, right : BOOLEAN]
      [] f = "left_ear"                            -> { LeftEar_fill(v) : v \in Vals }
      [] f = "right_ear"                           -> { RightEar_fill(v) : v \in Vals }
      [] f \in {"chest", "left_foot", "right_foot"} -> RgbVals
      [] f = "left_eye"                            -> { LeftEye_fill(c) : c \in RgbVals }
      [] f = "right_eye"                           -> { RightEye_fill(c) : c \in RgbVals }
      [] f = "skull"                               -> { Skull_fill(v) : v \in Vals }

\* <T as Default>::default() of each field's type
FieldDefault(f, src) ==
    CASE f \in {"position", "stiffness"}           -> JointArray_default
      [] f = "sonar"                               -> SonarEnabled_default(src)
      [] f = "left_ear"                            -> LeftEar_default
      [] f = "right_ear"                           -> RightEar_default
      [] f \in {"chest", "left_foot", "right_foot"} -> Rgb_default
      [] f = "left_eye"                            -> LeftEye_default
      [] f = "right_eye"                           -> RightEye_default
      [] f = "skull"                               -> Skull_default

\* Option<T>
None == << >>

Some(v) == << v >>

unwrap_or_default(o, d) == IF o = None THEN d ELSE o[1]

\* NaoControlMessage::builder(): NaoControlMessageBuilder::default(), every field None
NaoControlMessage_builder == [f \in MessageFields |-> None]

\* the generated setter: self.field = Some(field)
Builder_set(b, f, v) == [b EXCEPT ![f] = Some(v)]

\* the generated build(): field: self.field.unwrap_or_default(), for every field
NaoControlMessage_build(b, src) ==
    [f \in MessageFields |-> unwrap_or_default(b[f], FieldDefault(f, src))]

\* impl Default for NaoControlMessage
NaoControlMessage_default(src) ==
    [ position   |-> JointArray_fill(PositionSentinel),
      stiffness  |-> JointArray_default,
      sonar      |-> SonarEnabled_default(src),
      left_ear   |-> LeftEar_default,
      right_ear  |-> RightEar_default,
      chest      |-> Rgb_default,
      left_eye   |-> LeftEye_default,
      right_eye  |-> RightEye_default,
      left_foot  |-> Rgb_default,
      right_foot |-> Rgb_default,
      skull      |-> Skull_default ]

\* impl From<NaoControlMessage> for LolaControlMsg (fields renamed to PascalCase)
LolaControlMsg_from(value) ==
    [ Position  |-> JointArray_from_nidhogg(value.position),
      Stiffness |-> JointArray_from_nidhogg(value.stiffness),
      REar      |-> RightEar_from_nidhogg(value.right_ear),
      LEar      |-> LeftEar_from_nidhogg(value.left_ear),
      Chest     |-> Rgb_from_nidhogg(value.chest),
      LEye      |-> LeftEye_from_nidhogg(value.left_eye),
      REye      |-> RightEye_from_nidhogg(value.right_eye),
      LFoot     |-> Rgb_from_nidhogg(value.left_foot),
      RFoot     |-> Rgb_from_nidhogg(value.right_foot),
      Skull     |-> Skull_from_nidhogg(value.skull),
      Sonar     |-> SonarEnabled_from_nidhogg(value.sonar) ]

InitMsg ==
    /\ types_src \in TypesSources
    /\ builder = << >>
    /\ msg = << >>
    /\ raw = << >>
    /\ msrc = "none"
    /\ mpc = "start"
    /\ mn = 0
    /\ IdleCodec
    /\ IdleRetry
    /\ IdleIO
    /\ IdleJoint
    /\ IdleViews

\* NaoControlMessage::builder()
MsgBuilder ==
    /\ mpc = "start"
    /\ builder' = NaoControlMessage_builder
    /\ mpc' = "builder"
    /\ UNCHANGED <<types_src, msg, raw, msrc, mn>>
    /\ UNCHANGED msgOthers

\* builder.f(v), for one of the eleven setters
MsgSet(f, v) ==
    /\ mpc = "builder"
    /\ mn < MaxMsgSet
    /\ builder' = Builder_set(builder, f, v)
    /\ mn' = mn + 1
    /\ UNCHANGED <<types_src, msg, raw, msrc, mpc>>
    /\ UNCHANGED msgOthers

\* builder.build()
MsgBuild ==
    /\ mpc = "builder"
    /\ msg' = NaoControlMessage_build(builder, types_src)
    /\ msrc' = "builder"
    /\ mpc' = "built"
    /\ UNCHANGED <<types_src, builder, raw, mn>>
    /\ UNCHANGED msgOthers

\* NaoControlMessage::default()
MsgDefault ==
    /\ mpc = "start"
    /\ msg' = NaoControlMessage_default(types_src)
    /\ msrc' = "default"
    /\ mpc' = "built"
    /\ UNCHANGED <<types_src, builder, raw, mn>>
    /\ UNCHANGED msgOthers

\* let raw: LolaControlMsg = control_msg.into(), in send_control_msg
MsgEncode ==
    /\ mpc = "built"
    /\ raw' = LolaControlMsg_from(msg)
    /\ mpc' = "encoded"
    /\ UNCHANGED <<types_src, builder, msg, msrc, mn>>
    /\ UNCHANGED msgOthers

NextMsg ==
    \/ MsgBuilder
    \/ \E f \in MessageFields : \E v \in FieldValues(f) : MsgSet(f, v)
    \/ MsgBuild
    \/ MsgDefault
    \/ MsgEncode

SpecMsg == InitMsg /\ [][NextMsg]_vars

\* ------------------------------------------- wire codec: joints, ears, eyes

JointArrayInDeclarationOrder(value) ==
    [f \in JointNames |-> value[CHOOSE k \in 1..Len(JointArrayFields) : JointArrayFields[k] = f]]

\* impl FromLoLA<[T; 25]> for JointArray<T>: the array pattern names the slots in
\* wire order, the struct is then built from the names
JointArray_from_lola(value) ==
    LET head_yaw             == value[1]
        head_pitch           == value[2]
        left_shoulder_pitch  == value[3]
        left_shoulder_roll   == value[4]
        left_elbow_yaw       == value[5]
        left_elbow_roll      == value[6]
        left_wrist_yaw       == value[7]
        left_hip_yaw_pitch   == value[8]
        left_hip_roll        == value[9]
        left_hip_pitch       == value[10]
        left_knee_pitch      == value[11]
        left_ankle_pitch     == value[12]
        left_ankle_roll      == value[13]
        right_hip_roll       == value[14]
        right_hip_pitch      == value[15]
        right_knee_pitch     == value[16]
        right_ankle_pitch    == value[17]
        right_ankle_roll     == value[18]
        right_shoulder_pitch == value[19]
        right_shoulder_roll  == value[20]
        right_elbow_yaw      == value[21]
        right_elbow_roll     == value[22]
        right_wrist_yaw      == value[23]
        left_hand            == value[24]
        right_hand           == value[25]
    IN  [ head_yaw             |-> head_yaw,
          head_pitch           |-> head_pitch,
          left_shoulder_pitch  |-> left_shoulder_pitch,
          left_shoulder_roll   |-> left_shoulder_roll,
          left_elbow_yaw       |-> left_elbow_yaw,
          left_elbow_roll      |-> left_elbow_roll,
          left_wrist_yaw       |-> left_wrist_yaw,
          left_hip_yaw_pitch   |-> left_hip_yaw_pitch,
          left_hip_roll        |-> left_hip_roll,
          left_hip_pitch       |-> left_hip_pitch,
          left_knee_pitch      |-> left_knee_pitch,
          left_ankle_pitch     |-> left_ankle_pitch,
          left_ankle_roll      |-> left_ankle_roll,
          right_shoulder_pitch |-> right_shoulder_pitch,
          right_shoulder_roll  |-> right_shoulder_roll,
          right_elbow_yaw      |-> right_elbow_yaw,
          right_elbow_roll     |-> right_elbow_roll,
          right_wrist_yaw      |-> right_wrist_yaw,
          right_hip_roll       |-> right_hip_roll,
          right_hip_pitch      |-> right_hip_pitch,
          right_knee_pitch     |-> right_knee_pitch,
          right_ankle_pitch    |-> right_ankle_pitch,
          right_ankle_roll     |-> right_ankle_roll,
          left_hand            |-> left_hand,
          right_hand           |-> right_hand ]

\* impl FromLoLA<[f32; 10]> for LeftEar
LeftEar_from_lola(value) ==
    [ l0 |-> value[1], l1 |-> value[2], l2 |-> value[3], l3 |-> value[4],
      l4 |-> value[5], l5 |-> value[6], l6 |-> value[7], l7 |-> value[8],
      l8 |-> value[9], l9 |-> value[10] ]

\* impl FromLoLA<[f32; 10]> for RightEar
RightEar_from_lola(value) ==
    [ r0 |-> value[10], r1 |-> value[9], r2 |-> value[8], r3 |-> value[7],
      r4 |-> value[6],  r5 |-> value[5], r6 |-> value[4], r7 |-> value[3],
      r8 |-> value[2],  r9 |-> value[1] ]

\* impl FromLoLA<[f32; 24]> for LeftEye: the array pattern binds each block in the
\* LED order l7, l0, l1, l2, l3, l4, l5, l6
LeftEye_from_lola(value) ==
    LET l7_r == value[1]   l0_r == value[2]   l1_r == value[3]   l2_r == value[4]
        l3_r == value[5]   l4_r == value[6]   l5_r == value[7]   l6_r == value[8]
        l7_g == value[9]   l0_g == value[10]  l1_g == value[11]  l2_g == value[12]
        l3_g == value[13]  l4_g == value[14]  l5_g == value[15]  l6_g == value[16]
        l7_b == value[17]  l0_b == value[18]  l1_b == value[19]  l2_b == value[20]
        l3_b == value[21]  l4_b == value[22]  l5_b == value[23]  l6_b == value[24]
    IN  [ l0 |-> [red |-> l0_r, green |-> l0_g, blue |-> l0_b],
          l1 |-> [red |-> l1_r, green |-> l1_g, blue |-> l1_b],
          l2 |-> [red |-> l2_r, green |-> l2_g, blue |-> l2_b],
          l3 |-> [red |-> l3_r, green |-> l3_g, blue |-> l3_b],
          l4 |-> [red |-> l4_r, green |-> l4_g, blue |-> l4_b],
          l5 |-> [red |-> l5_r, green |-> l5_g, blue |-> l5_b],
          l6 |-> [red |-> l6_r, green |-> l6_g, blue |-> l6_b],
          l7 |-> [red |-> l7_r, green |-> l7_g, blue |-> l7_b] ]

\* the ear of the earlier types (types.rs, src/types.rs): one intensity per angle,
\* in declaration order
EarDegFields ==
    << "intensity_0_deg", "intensity_36_deg", "intensity_72_deg", "intensity_108_deg",
       "intensity_144_deg", "intensity_180_deg", "intensity_216_deg", "intensity_252_deg",
       "intensity_288_deg", "intensity_324_deg" >>

EarDeg_default == [f \in { EarDegFields[k] : k \in 1..Len(EarDegFields) } |-> 0]

\* the eye of the earlier types: one colour per angle, in declaration order
EyeDegFields ==
    << "color_0_deg", "color_45_deg", "color_90_deg", "color_135_deg",
       "color_180_deg", "color_225_deg", "color_270_deg", "color_315_deg" >>

EyeDeg_default == [f \in { EyeDegFields[k] : k \in 1..Len(EyeDegFields) } |-> Rgb_default]

\* backends/lola.rs: impl FromNidhogg<LeftEar> for [f32; 10]
Backends_LeftEar_from_nidhogg(value) ==
    << value.intensity_0_deg,   value.intensity_36_deg,  value.intensity_72_deg,
       value.intensity_108_deg, value.intensity_144_deg, value.intensity_180_deg,
       value.intensity_216_deg, value.intensity_252_deg, value.intensity_288_deg,
       value.intensity_324_deg >>

\* backends/lola.rs: impl FromNidhogg<RightEar> for [f32; 10]
Backends_RightEar_from_nidhogg(value) ==
    << value.intensity_324_deg, value.intensity_288_deg, value.intensity_252_deg,
       value.intensity_216_deg, value.intensity_180_deg, value.intensity_144_deg,
       value.intensity_108_deg, value.intensity_72_deg,  value.intensity_36_deg,
       value.intensity_0_deg >>

\* src/lola.rs: impl From<Ear<Left>> for [f32; 10]
Nao_EarLeft_into(value) ==
    << value.intensity_0_deg,   value.intensity_36_deg,  value.intensity_72_deg,
       value.intensity_108_deg, value.intensity_144_deg, value.intensity_180_deg,
       value.intensity_216_deg, value.intensity_252_deg, value.intensity_288_deg,
       value.intensity_324_deg >>

\* src/lola.rs: impl From<Ear<Right>> for [f32; 10]
Nao_EarRight_into(value) ==
    << value.intensity_324_deg, value.intensity_288_deg, value.intensity_252_deg,
       value.intensity_216_deg, value.intensity_180_deg, value.intensity_144_deg,
       value.intensity_108_deg, value.intensity_72_deg,  value.intensity_36_deg,
       value.intensity_0_deg >>

\* backends/lola.rs: impl FromNidhogg<LeftEye> for [f32; 24]
Backends_LeftEye_from_nidhogg(value) ==
    << value.color_45_deg.red,    value.color_0_deg.red,     value.color_315_deg.red,
       value.color_270_deg.red,   value.color_225_deg.red,   value.color_180_deg.red,
       value.color_135_deg.red,   value.color_90_deg.red,
       value.color_45_deg.green,  value.color_0_deg.green,   value.color_315_deg.green,
       value.color_270_deg.green, value.color_225_deg.green, value.color_180_deg.green,
       value.color_135_deg.green, value.color_90_deg.green,
       value.color_45_deg.blue,   value.color_0_deg.blue,    value.color_315_deg.blue,
       value.color_270_deg.blue,  value.color_225_deg.blue,  value.color_180_deg.blue,
       value.color_135_deg.blue,  value.color_90_deg.blue >>

\* backends/lola.rs: impl FromNidhogg<RightEye> for [f32; 24]
Backends_RightEye_from_nidhogg(value) ==
    << value.color_0_deg.red,     value.color_45_deg.red,    value.color_90_deg.red,
       value.color_135_deg.red,   value.color_180_deg.red,   value.color_225_deg.red,
       value.color_270_deg.red,   value.color_315_deg.red,
       value.color_0_deg.green,   value.color_45_deg.green,  value.color_90_deg.green,
       value.color_135_deg.green, value.color_180_deg.green, value.color_225_deg.green,
       value.color_270_deg.green, value.color_315_deg.green,
       value.color_0_deg.blue,    value.color_45_deg.blue,   value.color_90_deg.blue,
       value.color_135_deg.blue,  value.color_180_deg.blue,  value.color_225_deg.blue,
       value.color_270_deg.blue,  value.color_315_deg.blue >>

\* src/lola.rs: impl From<Skull> for [f32; 12]
Nao_Skull_into(value) ==
    << value.left_front_0,
       value.left_front_1,
       value.left_middle_0,
       value.left_rear_0,
       value.left_rear_1,
       value.left_rear_2,
       value.right_rear_2,
       value.right_rear_1,
       value.right_rear_0,
       value.right_middle_0,
       value.right_front_0,
       value.right_front_1 >>

\* src/lola.rs: impl From<JointArray<T>> for [T; 25]
Nao_JointArray_into(value) ==
    << value.head_yaw, value.head_pitch,
       value.left_shoulder_pitch, value.left_shoulder_roll, value.left_elbow_yaw,
       value.left_elbow_roll, value.left_wrist_yaw,
       value.left_hip_yaw_pitch, value.left_hip_roll, value.left_hip_pitch,
       value.left_knee_pitch, value.left_ankle_pitch, value.left_ankle_roll,
       value.right_hip_roll, value.right_hip_pitch, value.right_knee_pitch,
       value.right_ankle_pitch, value.right_ankle_roll,
       value.right_shoulder_pitch, value.right_shoulder_roll, value.right_elbow_yaw,
       value.right_elbow_roll, value.right_wrist_yaw,
       value.left_hand, value.right_hand >>

\* ------------------------------------------------- codec: the sensor state

\* struct Touch: its fields, in declaration order
TouchFields ==
    << "chest_board", "head_front", "head_middle", "head_rear",
       "left_foot_left", "left_foot_right",
       "left_hand_back", "left_hand_left", "left_hand_right",
       "right_foot_left", "right_foot_right",
       "right_hand_back", "right_hand_left", "right_hand_right" >>

\* impl FromLoLA<[f32; 4]> for Battery
Battery_from_lola(value) ==
    [ charge      |-> value[1],
      current     |-> value[2],
      status      |-> value[3],
      temperature |-> value[4] ]

\* impl FromLoLA<[f32; 4]> for ForceSensitiveResistorFoot
ForceSensitiveResistorFoot_from_lola(value) ==
    [ front_left  |-> value[1],
      front_right |-> value[2],
      rear_left   |-> value[3],
      rear_right  |-> value[4] ]

\* a decoder that takes the right foot from the first four values
FsrFeetSwapped(value) ==
    [ left_foot  |-> ForceSensitiveResistorFoot_from_lola(SubSeq(value, 5, 8)),
      right_foot |-> ForceSensitiveResistorFoot_from_lola(SubSeq(value, 1, 4)) ]

\* impl FromLoLA<[f32; 8]> for ForceSensitiveResistors:
\* left = value[..4], right = value[4..]
ForceSensitiveResistors_from_lola(value) ==
    [ left_foot  |-> ForceSensitiveResistorFoot_from_lola(SubSeq(value, 1, 4)),
      right_foot |-> ForceSensitiveResistorFoot_from_lola(SubSeq(value, 5, 8)) ]

\* impl FromLoLA<[f32; 14]> for Touch
Touch_from_lola(value) ==
    [ chest_board       |-> value[1],
      head_front        |-> value[2],
      head_middle       |-> value[3],
      head_rear         |-> value[4],
      left_foot_left    |-> value[5],
      left_foot_right   |-> value[6],
      left_hand_back    |-> value[7],
      left_hand_left    |-> value[8],
      left_hand_right   |-> value[9],
      right_foot_left   |-> value[10],
      right_foot_right  |-> value[11],
      right_hand_back   |-> value[12],
      right_hand_left   |-> value[13],
      right_hand_right  |-> value[14] ]

\* impl From<LolaNaoState<'_>> for HardwareInfo, on value.robot_config; to_string
\* copies the str it is given
HardwareInfo_from(robot_config) ==
    [ body_id      |-> robot_config[1],
      body_version |-> robot_config[2],
      head_id      |-> robot_config[3],
      head_version |-> robot_config[4] ]

\* the aggregates of the state that are only decoded
StateKinds == {"Battery", "ForceSensitiveResistors", "Touch", "HardwareInfo"}

\* struct LolaNaoState: battery: [f32; 4], f_s_r: [f32; 8], touch: [f32; 14],
\* robot_config: [&str; 4]
StateWireLen(k) ==
    CASE k = "Battery"                 -> 4
      [] k = "ForceSensitiveResistors" -> 8
      [] k = "Touch"                   -> 14
      [] k = "HardwareInfo"            -> 4

\* ------------------------------------------------- codec: the state machine

\* the conversions of backend/lola.rs
LolaKinds == {"JointArray", "LeftEar", "RightEar", "LeftEye", "RightEye", "Skull"}

\* the encoders of backends/lola.rs, over the types of types.rs
BackendsKinds ==
    {"backends::LeftEar", "backends::RightEar", "backends::LeftEye", "backends::RightEye"}

\* the encoders of src/lola.rs, over the types of src/types.rs
NaoKinds == {"Ear<Left>", "Ear<Right>", "nao::Skull", "nao::JointArray"}

CodecKinds == LolaKinds \cup BackendsKinds \cup NaoKinds

\* the kinds whose fields hold an Rgb
EyeKinds == {"LeftEye", "RightEye", "backends::LeftEye", "backends::RightEye"}

\* the kinds with a decoder as well
DecodableKinds == LolaKinds \cup StateKinds

\* <T as Default>::default()
Kind_default(k) ==
    CASE k \in {"JointArray", "nao::JointArray"}                       -> JointArray_default
      [] k = "LeftEar"                                                 -> LeftEar_default
      [] k = "RightEar"                                                -> RightEar_default
      [] k = "LeftEye"                                                 -> LeftEye_default
      [] k = "RightEye"                                                -> RightEye_default
      [] k \in {"Skull", "nao::Skull"}                                 -> Skull_default
      [] k \in {"backends::LeftEar", "backends::RightEar",
                "Ear<Left>", "Ear<Right>"}                             -> EarDeg_default
      [] k \in {"backends::LeftEye", "backends::RightEye"}             -> EyeDeg_default

\* value.into_lola() / value.into(): the encoder of the kind
Kind_from_nidhogg(k, value) ==
    CASE k = "JointArray"          -> JointArray_from_nidhogg(value)
      [] k = "LeftEar"             -> LeftEar_from_nidhogg(value)
      [] k = "RightEar"            -> RightEar_from_nidhogg(value)
      [] k = "LeftEye"             -> LeftEye_from_nidhogg(value)
      [] k = "RightEye"            -> RightEye_from_nidhogg(value)
      [] k = "Skull"               -> Skull_from_nidhogg(value)
      [] k = "backends::LeftEar"   -> Backends_LeftEar_from_nidhogg(value)
      [] k = "backends::RightEar"  -> Backends_RightEar_from_nidhogg(value)
      [] k = "backends::LeftEye"   -> Backends_LeftEye_from_nidhogg(value)
      [] k = "backends::RightEye"  -> Backends_RightEye_from_nidhogg(value)
      [] k = "Ear<Left>"           -> Nao_EarLeft_into(value)
      [] k = "Ear<Right>"          -> Nao_EarRight_into(value)
      [] k = "nao::Skull"          -> Nao_Skull_into(value)
      [] k = "nao::JointArray"     -> Nao_JointArray_into(value)

\* w.into_nidhogg(): the decoder of the kind
Kind_from_lola(k, w) ==
    CASE k = "JointArray" -> JointArray_from_lola(w)
      [] k = "LeftEar"    -> LeftEar_from_lola(w)
      [] k = "RightEar"   -> RightEar_from_lola(w)
      [] k = "LeftEye"    -> LeftEye_from_lola(w)
      [] k = "RightEye"   -> RightEye_from_lola(w)
      [] k = "Skull"      -> Skull_from_lola(w)
      [] k = "Battery"                 -> Battery_from_lola(w)
      [] k = "ForceSensitiveResistors" -> ForceSensitiveResistors_from_lola(w)
      [] k = "Touch"                   -> Touch_from_lola(w)
      [] k = "HardwareInfo"            -> HardwareInfo_from(w)

\* the N of the kind's [T; N]
WireLen(k) ==
    IF k \in StateKinds THEN StateWireLen(k) ELSE Len(Kind_from_nidhogg(k, Kind_default(k)))

\* a conversion starts from the type's Default, to be encoded, or from an array of
\* zeros as it comes off the wire, to be decoded
InitCodec ==
    /\ kind \in CodecKinds \cup StateKinds
    /\ cpc \in (IF kind \in StateKinds THEN {} ELSE {"build"})
                 \cup (IF kind \in DecodableKinds THEN {"wire"} ELSE {})
    /\ val = (IF cpc = "build" THEN Kind_default(kind) ELSE << >>)
    /\ wire = (IF cpc = "wire" THEN [k \in 1..WireLen(kind) |-> 0] ELSE << >>)
    /\ back = << >>
    /\ nset = 0
    /\ IdleRetry
    /\ IdleIO
    /\ IdleJoint
    /\ IdleMsg
    /\ IdleViews

\* skull.<f> = v  (the fields of Skull are pub)
SetSkullField(f, v) ==
    /\ kind = "Skull"
    /\ cpc = "build"
    /\ nset < MaxSet
    /\ val' = [val EXCEPT ![f] = v]
    /\ nset' = nset + 1
    /\ UNCHANGED <<kind, wire, back, cpc>>
    /\ UNCHANGED codecOthers

\* right_eye.<f>.<c> = v  (the fields of RightEye and Rgb are pub)
SetRightEyeChannel(f, c, v) ==
    /\ kind = "RightEye"
    /\ cpc = "build"
    /\ nset < MaxSet
    /\ val' = [val EXCEPT ![f][c] = v]
    /\ nset' = nset + 1
    /\ UNCHANGED <<kind, wire, back, cpc>>
    /\ UNCHANGED codecOthers

\* let w: [f32; 12] = skull.into_lola()
EncodeSkull ==
    /\ kind = "Skull"
    /\ cpc = "build"
    /\ wire' = Skull_from_nidhogg(val)
    /\ cpc' = "encoded"
    /\ UNCHANGED <<kind, val, back, nset>>
    /\ UNCHANGED codecOthers

\* let s: Skull = w.into_nidhogg()
DecodeSkull ==
    /\ kind = "Skull"
    /\ cpc = "encoded"
    /\ back' = Skull_from_lola(wire)
    /\ cpc' = "decoded"
    /\ UNCHANGED <<kind, val, wire, nset>>
    /\ UNCHANGED codecOthers

\* let w: [f32; 24] = right_eye.into_lola()
EncodeRightEye ==
    /\ kind = "RightEye"
    /\ cpc = "build"
    /\ wire' = RightEye_from_nidhogg(val)
    /\ cpc' = "encoded"
    /\ UNCHANGED <<kind, val, back, nset>>
    /\ UNCHANGED codecOthers

\* let e: RightEye = w.into_nidhogg()
DecodeRightEye ==
    /\ kind = "RightEye"
    /\ cpc = "encoded"
    /\ back' = RightEye_from_lola(wire)
    /\ cpc' = "decoded"
    /\ UNCHANGED <<kind, val, wire, nset>>
    /\ UNCHANGED codecOthers

\* the field names of the kinds with f32 (or T) fields
FlatFieldNames ==
    JointNames \cup LeftEarFields \cup RightEarFields \cup SkullFields
        \cup DOMAIN EarDeg_default

\* the field names of the eyes
EyeFieldNames == LeftEyeFields \cup DOMAIN EyeDeg_default

\* the slots of the longest wire array
WireSlots == 1..Len(JointArrayWireOrder)

\* value.<f> = v, on a value with f32 (or T) fields
SetField(f, v) ==
    /\ kind \in CodecKinds \ (EyeKinds \cup {"Skull"})
    /\ cpc = "build"
    /\ f \in DOMAIN val
    /\ nset < MaxSet
    /\ val' = [val EXCEPT ![f] = v]
    /\ nset' = nset + 1
    /\ UNCHANGED <<kind, wire, back, cpc>>
    /\ UNCHANGED codecOthers

\* eye.<f>.<c> = v
SetEyeChannel(f, c, v) ==
    /\ kind \in EyeKinds \ {"RightEye"}
    /\ cpc = "build"
    /\ f \in DOMAIN val
    /\ nset < MaxSet
    /\ val' = [val EXCEPT ![f][c] = v]
    /\ nset' = nset + 1
    /\ UNCHANGED <<kind, wire, back, cpc>>
    /\ UNCHANGED codecOthers

\* let w = value.into_lola()
Encode ==
    /\ kind \in CodecKinds \ {"Skull", "RightEye"}
    /\ cpc = "build"
    /\ wire' = Kind_from_nidhogg(kind, val)
    /\ cpc' = "encoded"
    /\ UNCHANGED <<kind, val, back, nset>>
    /\ UNCHANGED codecOthers

\* let x = w.into_nidhogg()
Decode ==
    /\ kind \in DecodableKinds \ {"Skull", "RightEye"}
    /\ cpc = "encoded"
    /\ back' = Kind_from_lola(kind, wire)
    /\ cpc' = "decoded"
    /\ UNCHANGED <<kind, val, wire, nset>>
    /\ UNCHANGED codecOthers

\* w[i] = v, on an array as it comes off the wire
SetWireSlot(i, v) ==
    /\ cpc = "wire"
    /\ i \in DOMAIN wire
    /\ nset < MaxSet
    /\ wire' = [wire EXCEPT ![i] = v]
    /\ nset' = nset + 1
    /\ UNCHANGED <<kind, val, back, cpc>>
    /\ UNCHANGED codecOthers

\* let x = w.into_nidhogg(), on an array that did not come from the encoder
DecodeWire ==
    /\ cpc = "wire"
    /\ val' = Kind_from_lola(kind, wire)
    /\ cpc' = "unpacked"
    /\ UNCHANGED <<kind, wire, back, nset>>
    /\ UNCHANGED codecOthers

\* let w2 = x.into_lola(), on the value just decoded
EncodeBack ==
    /\ kind \notin StateKinds
    /\ cpc = "unpacked"
    /\ back' = Kind_from_nidhogg(kind, val)
    /\ cpc' = "repacked"
    /\ UNCHANGED <<kind, val, wire, nset>>
    /\ UNCHANGED codecOthers

NextCodec ==
    \/ \E f \in SkullFields, v \in Vals : SetSkullField(f, v)
    \/ \E f \in RightEyeFields, c \in RgbChannels, v \in Vals : SetRightEyeChannel(f, c, v)
    \/ EncodeSkull
    \/ DecodeSkull
    \/ EncodeRightEye
    \/ DecodeRightEye
    \/ \E f \in FlatFieldNames, v \in Vals : SetField(f, v)
    \/ \E f \in EyeFieldNames, c \in RgbChannels, v \in Vals : SetEyeChannel(f, c, v)
    \/ Encode
    \/ Decode
    \/ \E i \in WireSlots, v \in Vals : SetWireSlot(i, v)
    \/ DecodeWire
    \/ EncodeBack

SpecCodec == InitCodec /\ [][NextCodec]_vars


\* -------------------------------------------------------- JointArray: groups

\* JointArray::head_joints
JointArray_head_joints(self) ==
    [ yaw |-> self.head_yaw, pitch |-> self.head_pitch ]

\* JointArray::left_leg_joints
JointArray_left_leg_joints(self) ==
    [ hip_yaw_pitch |-> self.left_hip_yaw_pitch,
      hip_roll      |-> self.left_hip_roll,
      hip_pitch     |-> self.left_hip_pitch,
      knee_pitch    |-> self.left_knee_pitch,
      ankle_pitch   |-> self.left_ankle_pitch,
      ankle_roll    |-> self.left_ankle_roll ]

\* JointArray::left_arm_joints
JointArray_left_arm_joints(self) ==
    [ shoulder_pitch |-> self.left_shoulder_pitch,
      shoulder_roll  |-> self.left_shoulder_roll,
      elbow_yaw      |-> self.left_elbow_yaw,
      elbow_roll     |-> self.left_elbow_roll,
      wrist_yaw      |-> self.left_wrist_yaw,
      hand           |-> self.left_hand ]

RightLegWithHipYawPitch(self) ==
    [ hip_yaw_pitch |-> self.left_hip_yaw_pitch,
      hip_roll      |-> self.right_hip_roll,
      hip_pitch     |-> self.right_hip_pitch,
      knee_pitch    |-> self.right_knee_pitch,
      ankle_pitch   |-> self.right_ankle_pitch,
      ankle_roll    |-> self.right_ankle_roll ]

\* JointArray::right_leg_joints: RightLegJoints has no hip_yaw_pitch field
JointArray_right_leg_joints(self) ==
    [ hip_roll    |-> self.right_hip_roll,
      hip_pitch   |-> self.right_hip_pitch,
      knee_pitch  |-> self.right_knee_pitch,
      ankle_pitch |-> self.right_ankle_pitch,
      ankle_roll  |-> self.right_ankle_roll ]

\* JointArray::right_arm_joints
JointArray_right_arm_joints(self) ==
    [ shoulder_pitch |-> self.right_shoulder_pitch,
      shoulder_roll  |-> self.right_shoulder_roll,
      elbow_yaw      |-> self.right_elbow_yaw,
      elbow_roll     |-> self.right_elbow_roll,
      wrist_yaw      |-> self.right_wrist_yaw,
      hand           |-> self.right_hand ]

\* JointArray::leg_joints
JointArray_leg_joints(self) ==
    [ left_leg  |-> JointArray_left_leg_joints(self),
      right_leg |-> JointArray_right_leg_joints(self) ]

\* JointArray::arm_joints
JointArray_arm_joints(self) ==
    [ left_arm  |-> JointArray_left_arm_joints(self),
      right_arm |-> JointArray_right_arm_joints(self) ]

\* the five groups that together make up the array, each from its getter
JointArray_groups(self) ==
    [ head      |-> JointArray_head_joints(self),
      left_arm  |-> JointArray_left_arm_joints(self),
      right_arm |-> JointArray_right_arm_joints(self),
      left_leg  |-> JointArray_left_leg_joints(self),
      right_leg |-> JointArray_right_leg_joints(self) ]

GroupNames == {"head", "left_arm", "right_arm", "left_leg", "right_leg"}

\* the orders in which the five group setters can be called, each once
GroupOrders ==
    { o \in [1..Cardinality(GroupNames) -> GroupNames] :
        \A a, b \in DOMAIN o : a # b => o[a] # o[b] }

\* JointArray::builder(): JointArrayBuilder::default(), every field None
JointArray_builder == [f \in JointNames |-> None]

\* JointArrayBuilder::head_joints
JointArrayBuilder_head_joints(self, j) ==
    [self EXCEPT !.head_pitch = Some(j.pitch),
                 !.head_yaw = Some(j.yaw)]

LeftLegSetterWithoutHipYawPitch(self, j) ==
    [self EXCEPT !.left_hip_roll = Some(j.hip_roll),
                 !.left_hip_pitch = Some(j.hip_pitch),
                 !.left_knee_pitch = Some(j.knee_pitch),
                 !.left_ankle_pitch = Some(j.ankle_pitch),
                 !.left_ankle_roll = Some(j.ankle_roll)]

\* JointArrayBuilder::left_leg_joints
JointArrayBuilder_left_leg_joints(self, j) ==
    [self EXCEPT !.left_hip_yaw_pitch = Some(j.hip_yaw_pitch),
                 !.left_hip_roll = Some(j.hip_roll),
                 !.left_hip_pitch = Some(j.hip_pitch),
                 !.left_knee_pitch = Some(j.knee_pitch),
                 !.left_ankle_pitch = Some(j.ankle_pitch),
                 !.left_ankle_roll = Some(j.ankle_roll)]

RightLegSetterWithHipYawPitch(self, j) ==
    [self EXCEPT !.left_hip_yaw_pitch = Some(j.hip_roll),
                 !.right_hip_roll = Some(j.hip_roll),
                 !.right_hip_pitch = Some(j.hip_pitch),
                 !.right_knee_pitch = Some(j.knee_pitch),
                 !.right_ankle_pitch = Some(j.ankle_pitch),
                 !.right_ankle_roll = Some(j.ankle_roll)]

\* JointArrayBuilder::right_leg_joints
JointArrayBuilder_right_leg_joints(self, j) ==
    [self EXCEPT !.right_hip_roll = Some(j.hip_roll),
                 !.right_hip_pitch = Some(j.hip_pitch),
                 !.right_knee_pitch = Some(j.knee_pitch),
                 !.right_ankle_pitch = Some(j.ankle_pitch),
                 !.right_ankle_roll = Some(j.ankle_roll)]

\* JointArrayBuilder::left_arm_joints
JointArrayBuilder_left_arm_joints(self, j) ==
    [self EXCEPT !.left_shoulder_pitch = Some(j.shoulder_pitch),
                 !.left_shoulder_roll = Some(j.shoulder_roll),
                 !.left_elbow_yaw = Some(j.elbow_yaw),
                 !.left_elbow_roll = Some(j.elbow_roll),
                 !.left_wrist_yaw = Some(j.wrist_yaw),
                 !.left_hand = Some(j.hand)]

\* JointArrayBuilder::right_arm_joints
JointArrayBuilder_right_arm_joints(self, j) ==
    [self EXCEPT !.right_shoulder_pitch = Some(j.shoulder_pitch),
                 !.right_shoulder_roll = Some(j.shoulder_roll),
                 !.right_elbow_yaw = Some(j.elbow_yaw),
                 !.right_elbow_roll = Some(j.elbow_roll),
                 !.right_wrist_yaw = Some(j.wrist_yaw),
                 !.right_hand = Some(j.hand)]

\* the group setter of the name
SetGroup(self, g, j) ==
    CASE g = "head"      -> JointArrayBuilder_head_joints(self, j)
      [] g = "left_arm"  -> JointArrayBuilder_left_arm_joints(self, j)
      [] g = "right_arm" -> JointArrayBuilder_right_arm_joints(self, j)
      [] g = "left_leg"  -> JointArrayBuilder_left_leg_joints(self, j)
      [] g = "right_leg" -> JointArrayBuilder_right_leg_joints(self, j)

\* JointArrayBuilder::joints: every field from the array
JointArrayBuilder_joints(self, j) ==
    [self EXCEPT !.head_pitch = Some(j.head_pitch),
                 !.head_yaw = Some(j.head_yaw),
                 !.left_hip_yaw_pitch = Some(j.left_hip_yaw_pitch),
                 !.left_hip_roll = Some(j.left_hip_roll),
                 !.left_hip_pitch = Some(j.left_hip_pitch),
                 !.left_knee_pitch = Some(j.left_knee_pitch),
                 !.left_ankle_pitch = Some(j.left_ankle_pitch),
                 !.left_ankle_roll = Some(j.left_ankle_roll),
                 !.right_hip_roll = Some(j.right_hip_roll),
                 !.right_hip_pitch = Some(j.right_hip_pitch),
                 !.right_knee_pitch = Some(j.right_knee_pitch),
                 !.right_ankle_pitch = Some(j.right_ankle_pitch),
                 !.right_ankle_roll = Some(j.right_ankle_roll),
                 !.left_shoulder_pitch = Some(j.left_shoulder_pitch),
                 !.left_shoulder_roll = Some(j.left_shoulder_roll),
                 !.left_elbow_yaw = Some(j.left_elbow_yaw),
                 !.left_elbow_roll = Some(j.left_elbow_roll),
                 !.left_wrist_yaw = Some(j.left_wrist_yaw),
                 !.left_hand = Some(j.left_hand),
                 !.right_shoulder_pitch = Some(j.right_shoulder_pitch),
                 !.right_shoulder_roll = Some(j.right_shoulder_roll),
                 !.right_elbow_yaw = Some(j.right_elbow_yaw),
                 !.right_elbow_roll = Some(j.right_elbow_roll),
                 !.right_wrist_yaw = Some(j.right_wrist_yaw),
                 !.right_hand = Some(j.right_hand)]

\* JointArrayBuilder::leg_joints
JointArrayBuilder_leg_joints(self, j) ==
    [self EXCEPT !.left_hip_yaw_pitch = Some(j.left_leg.hip_yaw_pitch),
                 !.left_hip_roll = Some(j.left_leg.hip_roll),
                 !.left_hip_pitch = Some(j.left_leg.hip_pitch),
                 !.left_knee_pitch = Some(j.left_leg.knee_pitch),
                 !.left_ankle_pitch = Some(j.left_leg.ankle_pitch),
                 !.left_ankle_roll = Some(j.left_leg.ankle_roll),
                 !.right_hip_roll = Some(j.right_leg.hip_roll),
                 !.right_hip_pitch = Some(j.right_leg.hip_pitch),
                 !.right_ankle_pitch = Some(j.right_leg.ankle_pitch),
                 !.right_knee_pitch = Some(j.right_leg.knee_pitch),
                 !.right_ankle_roll = Some(j.right_leg.ankle_roll)]

\* JointArrayBuilder::arm_joints
JointArrayBuilder_arm_joints(self, j) ==
    [self EXCEPT !.left_shoulder_pitch = Some(j.left_arm.shoulder_pitch),
                 !.left_shoulder_roll = Some(j.left_arm.shoulder_roll),
                 !.left_elbow_yaw = Some(j.left_arm.elbow_yaw),
                 !.left_elbow_roll = Some(j.left_arm.elbow_roll),
                 !.left_wrist_yaw = Some(j.left_arm.wrist_yaw),
                 !.left_hand = Some(j.left_arm.hand),
                 !.right_shoulder_pitch = Some(j.right_arm.shoulder_pitch),
                 !.right_shoulder_roll = Some(j.right_arm.shoulder_roll),
                 !.right_elbow_yaw = Some(j.right_arm.elbow_yaw),
                 !.right_elbow_roll = Some(j.right_arm.elbow_roll),
                 !.right_wrist_yaw = Some(j.right_arm.wrist_yaw),
                 !.right_hand = Some(j.right_arm.hand)]

\* the setters of the builder that take a group
SetterNames == GroupNames \cup {"leg", "arm"}

\* the setter of the name, applied
JointArrayBuilder_set(self, g, j) ==
    CASE g = "leg" -> JointArrayBuilder_leg_joints(self, j)
      [] g = "arm" -> JointArrayBuilder_arm_joints(self, j)
      [] OTHER     -> SetGroup(self, g, j)

\* the group of the name, taken from an array by its getter
GroupValue(g, a) ==
    CASE g = "leg" -> JointArray_leg_joints(a)
      [] g = "arm" -> JointArray_arm_joints(a)
      [] OTHER     -> JointArray_groups(a)[g]

\* builder.g1(groups.g1).g2(groups.g2)...: the first n setters of the order, chained
RECURSIVE SetGroups(_, _, _, _)
SetGroups(self, order, groups, n) ==
    IF n = 0 THEN self
    ELSE SetGroup(SetGroups(self, order, groups, n - 1), order[n], groups[order[n]])

\* the generated JointArrayBuilder::build(): unwrap_or_default() of every field
JointArray_build(self) ==
    [f \in JointNames |-> unwrap_or_default(self[f], 0)]

\* ---------------------------------------------- JointArray: positional views

\* the number of joints
JointCount == Len(JointArrayFields)

\* to_vec: the fields in the order of the vec! literal
ToVecOrder ==
    << "head_yaw", "head_pitch",
       "left_shoulder_pitch", "left_shoulder_roll", "left_elbow_yaw", "left_elbow_roll",
       "left_wrist_yaw",
       "left_hip_yaw_pitch", "left_hip_roll", "left_hip_pitch", "left_knee_pitch",
       "left_ankle_pitch", "left_ankle_roll",
       "right_shoulder_pitch", "right_shoulder_roll", "right_elbow_yaw", "right_elbow_roll",
       "right_wrist_yaw",
       "right_hip_roll", "right_hip_pitch", "right_knee_pitch", "right_ankle_pitch",
       "right_ankle_roll",
       "left_hand", "right_hand" >>

\* self.to_vec()
JointArray_to_vec(value) == [k \in 1..Len(ToVecOrder) |-> value[ToVecOrder[k]]]

\* try_from: the field that takes values[k - 1], for k = 1..25
TryFromOrder ==
    << "head_yaw", "head_pitch",
       "left_shoulder_pitch", "left_shoulder_roll", "left_elbow_yaw", "left_elbow_roll",
       "left_wrist_yaw",
       "left_hip_yaw_pitch", "left_hip_roll", "left_hip_pitch", "left_knee_pitch",
       "left_ankle_pitch", "left_ankle_roll",
       "right_shoulder_pitch", "right_shoulder_roll", "right_elbow_yaw", "right_elbow_roll",
       "right_wrist_yaw",
       "right_hip_roll", "right_hip_pitch", "right_knee_pitch", "right_ankle_pitch",
       "right_ankle_roll",
       "left_hand", "right_hand" >>

\* as_array: the field moved into each element of the [T; 25]
AsArrayOrder ==
    << "head_yaw", "head_pitch", "left_shoulder_pitch", "left_shoulder_roll",
       "left_elbow_yaw", "left_elbow_roll", "left_wrist_yaw", "left_hip_yaw_pitch",
       "left_hip_roll", "left_hip_pitch", "left_knee_pitch", "left_ankle_pitch",
       "left_ankle_roll", "right_shoulder_pitch", "right_shoulder_roll", "right_elbow_yaw",
       "right_elbow_roll", "right_wrist_yaw", "right_hip_roll", "right_hip_pitch",
       "right_knee_pitch", "right_ankle_pitch", "right_ankle_roll", "left_hand",
       "right_hand" >>

\* self.as_array()
JointArray_as_array(value) == [k \in 1..Len(AsArrayOrder) |-> value[AsArrayOrder[k]]]

\* self.as_array_ref(): the field each &T of the [&T; 25] borrows
JointArray_as_array_ref ==
    << "head_yaw", "head_pitch", "left_shoulder_pitch", "left_shoulder_roll",
       "left_elbow_yaw", "left_elbow_roll", "left_wrist_yaw", "left_hip_yaw_pitch",
       "left_hip_roll", "left_hip_pitch", "left_knee_pitch", "left_ankle_pitch",
       "left_ankle_roll", "right_shoulder_pitch", "right_shoulder_roll", "right_elbow_yaw",
       "right_elbow_roll", "right_wrist_yaw", "right_hip_roll", "right_hip_pitch",
       "right_knee_pitch", "right_ankle_pitch", "right_ankle_roll", "left_hand",
       "right_hand" >>

\* an array of mutable borrows whose last two elements are the hands, right first
AsArrayMutHandsSwapped ==
    [k \in 1..Len(AsArrayOrder) |->
        CASE k = 24 -> "right_hand" [] k = 25 -> "left_hand" [] OTHER -> AsArrayOrder[k]]

\* self.as_array_mut(): the field each &mut T of the [&mut T; 25] borrows
JointArray_as_array_mut ==
    << "head_yaw", "head_pitch", "left_shoulder_pitch", "left_shoulder_roll",
       "left_elbow_yaw", "left_elbow_roll", "left_wrist_yaw", "left_hip_yaw_pitch",
       "left_hip_roll", "left_hip_pitch", "left_knee_pitch", "left_ankle_pitch",
       "left_ankle_roll", "right_shoulder_pitch", "right_shoulder_roll", "right_elbow_yaw",
       "right_elbow_roll", "right_wrist_yaw", "right_hip_roll", "right_hip_pitch",
       "right_knee_pitch", "right_ankle_pitch", "right_ankle_roll", "left_hand",
       "right_hand" >>

\* IntoIterator for JointArray<T>: self.as_array().into_iter()
JointArray_into_iter(value) == JointArray_as_array(value)

\* IntoIterator for &JointArray<T>: self.as_array_ref().into_iter()
JointArray_ref_into_iter == JointArray_as_array_ref

\* a shared borrow of a field of the array, and what it reads
Borrow(value, field) == [place |-> field, value |-> value[field]]

\* the message of the Err of try_from
TryFromError == "Slice must contain exactly 25 elements to convert to JointArray"

\* a conversion that only refuses slices that are too short
TryFromAtLeast25(values) ==
    IF Len(values) < 25
    THEN [ok |-> FALSE, value |-> << >>, err |-> TryFromError]
    ELSE [ok |-> TRUE, err |-> "",
          value |-> [f \in JointNames |->
                        values[CHOOSE k \in 1..Len(TryFromOrder) : TryFromOrder[k] = f]]]

\* JointArray::try_from(values: &[T])
JointArray_try_from(values) ==
    IF Len(values) # 25
    THEN [ok |-> FALSE, value |-> << >>, err |-> TryFromError]
    ELSE [ok |-> TRUE, err |-> "",
          value |-> [f \in JointNames |->
                        values[CHOOSE k \in 1..Len(TryFromOrder) : TryFromOrder[k] = f]]]

\* the lengths of the slices the callers try: empty, one short, exact, one long
SliceLens == {0, JointCount - 1, JointCount, JointCount + 1}

\* the slices the callers try: of each length, the one whose elements are all
\* different (10, 11, 12, ...)
Slices == { [i \in 1..n |-> 9 + i] : n \in SliceLens }

\* ------------------------------------------------- JointArray: state machine

InitJoint ==
    /\ joints \in { JointArray_fill(v) : v \in Vals }
    /\ jwire = << >>
    /\ jres = << >>
    /\ jn = 0
    /\ jgroups = << >>
    /\ jbuilder = << >>
    /\ jbuilt = << >>
    /\ IdleCodec
    /\ IdleRetry
    /\ IdleIO
    /\ IdleMsg
    /\ IdleViews

\* joints.get(index)
JaGet(index) ==
    /\ jn < MaxJointOps
    /\ LET r == JointArray_get(index)
       IN  jres' = JointResult("get", index, r, IF r.some THEN joints[r.field] ELSE 0)
    /\ jn' = jn + 1
    /\ UNCHANGED <<joints, jwire, jgroups, jbuilder, jbuilt>>
    /\ UNCHANGED jointOthers

\* if let Some(value) = joints.get_mut(index) { *value = v }
JaGetMut(index, v) ==
    /\ jn < MaxJointOps
    /\ LET r == JointArray_get_mut(index)
       IN  /\ joints' = IF r.some THEN [joints EXCEPT ![r.field] = v] ELSE joints
           /\ jres' = JointResult("get_mut", index, r, IF r.some THEN v ELSE 0)
    /\ jn' = jn + 1
    /\ UNCHANGED <<jwire, jgroups, jbuilder, jbuilt>>
    /\ UNCHANGED jointOthers

\* joints.clone().into_lola(): the array that goes on the wire
JaIntoLola ==
    /\ jn < MaxJointOps
    /\ jwire' = JointArray_from_nidhogg(joints)
    /\ jres' = JointResult("into_lola", 0, [some |-> FALSE, field |-> ""], 0)
    /\ jn' = jn + 1
    /\ UNCHANGED <<joints, jgroups, jbuilder, jbuilt>>
    /\ UNCHANGED jointOthers

\* joints.leg_joints(): both legs, each as its own group
JaLegJoints ==
    /\ jn < MaxJointOps
    /\ jgroups' = JointArray_leg_joints(joints)
    /\ jres' = JointResult("leg_joints", 0, [some |-> FALSE, field |-> ""], 0)
    /\ jn' = jn + 1
    /\ UNCHANGED <<joints, jwire, jbuilder, jbuilt>>
    /\ UNCHANGED jointOthers

\* JointArray::builder(), the five group setters in the given order, each handed the
\* group taken from joints, then build()
JaFromGroups(order) ==
    /\ jn < MaxJointOps
    /\ jgroups' = JointArray_groups(joints)
    /\ jbuilder' = SetGroups(JointArray_builder, order, JointArray_groups(joints), Len(order))
    /\ jbuilt' = JointArray_build(
                    SetGroups(JointArray_builder, order, JointArray_groups(joints), Len(order)))
    /\ jres' = JointResult("from_groups", 0, [some |-> FALSE, field |-> ""], 0)
    /\ jn' = jn + 1
    /\ UNCHANGED <<joints, jwire>>
    /\ UNCHANGED jointOthers

NextJoint ==
    \/ \E index \in JointIndices : JaGet(index)
    \/ \E index \in JointIndices, v \in Vals : JaGetMut(index, v)
    \/ JaIntoLola
    \/ JaLegJoints
    \/ \E order \in GroupOrders : JaFromGroups(order)

SpecJoint == InitJoint /\ [][NextJoint]_vars

\* the closures handed to map: |elem| elem + 1 and |elem| elem * 2
MapFns == {"add_one", "double"}

\* f(elem)
ApplyFn(f, elem) ==
    CASE f = "add_one" -> elem + 1
      [] f = "double"  -> elem * 2

\* self.map(f)
JointArray_map(value, f) ==
    [ head_yaw             |-> ApplyFn(f, value.head_yaw),
      head_pitch           |-> ApplyFn(f, value.head_pitch),
      left_shoulder_pitch  |-> ApplyFn(f, value.left_shoulder_pitch),
      left_shoulder_roll   |-> ApplyFn(f, value.left_shoulder_roll),
      left_elbow_yaw       |-> ApplyFn(f, value.left_elbow_yaw),
      left_elbow_roll      |-> ApplyFn(f, value.left_elbow_roll),
      left_wrist_yaw       |-> ApplyFn(f, value.left_wrist_yaw),
      left_hip_yaw_pitch   |-> ApplyFn(f, value.left_hip_yaw_pitch),
      left_hip_roll        |-> ApplyFn(f, value.left_hip_roll),
      left_hip_pitch       |-> ApplyFn(f, value.left_hip_pitch),
      left_knee_pitch      |-> ApplyFn(f, value.left_knee_pitch),
      left_ankle_pitch     |-> ApplyFn(f, value.left_ankle_pitch),
      left_ankle_roll      |-> ApplyFn(f, value.left_ankle_roll),
      right_shoulder_pitch |-> ApplyFn(f, value.right_shoulder_pitch),
      right_shoulder_roll  |-> ApplyFn(f, value.right_shoulder_roll),
      right_elbow_yaw      |-> ApplyFn(f, value.right_elbow_yaw),
      right_elbow_roll     |-> ApplyFn(f, value.right_elbow_roll),
      right_wrist_yaw      |-> ApplyFn(f, value.right_wrist_yaw),
      right_hip_roll       |-> ApplyFn(f, value.right_hip_roll),
      right_hip_pitch      |-> ApplyFn(f, value.right_hip_pitch),
      right_knee_pitch     |-> ApplyFn(f, value.right_knee_pitch),
      right_ankle_pitch    |-> ApplyFn(f, value.right_ankle_pitch),
      right_ankle_roll     |-> ApplyFn(f, value.right_ankle_roll),
      left_hand            |-> ApplyFn(f, value.left_hand),
      right_hand           |-> ApplyFn(f, value.right_hand) ]

\* a zip that crosses the hands of the second array
ZipCrossingHands(value, other) ==
    [ n \in JointNames |->
        << value[n], other[CASE n = "left_hand"  -> "right_hand"
                             [] n = "right_hand" -> "left_hand"
                             [] OTHER            -> n] >> ]

\* self.zip(other)
JointArray_zip(value, other) ==
    [ head_yaw             |-> << value.head_yaw, other.head_yaw >>,
      head_pitch           |-> << value.head_pitch, other.head_pitch >>,
      left_shoulder_pitch  |-> << value.left_shoulder_pitch, other.left_shoulder_pitch >>,
      left_shoulder_roll   |-> << value.left_shoulder_roll, other.left_shoulder_roll >>,
      left_elbow_yaw       |-> << value.left_elbow_yaw, other.left_elbow_yaw >>,
      left_elbow_roll      |-> << value.left_elbow_roll, other.left_elbow_roll >>,
      left_wrist_yaw       |-> << value.left_wrist_yaw, other.left_wrist_yaw >>,
      left_hip_yaw_pitch   |-> << value.left_hip_yaw_pitch, other.left_hip_yaw_pitch >>,
      left_hip_roll        |-> << value.left_hip_roll, other.left_hip_roll >>,
      left_hip_pitch       |-> << value.left_hip_pitch, other.left_hip_pitch >>,
      left_knee_pitch      |-> << value.left_knee_pitch, other.left_knee_pitch >>,
      left_ankle_pitch     |-> << value.left_ankle_pitch, other.left_ankle_pitch >>,
      left_ankle_roll      |-> << value.left_ankle_roll, other.left_ankle_roll >>,
      right_shoulder_pitch |-> << value.right_shoulder_pitch, other.right_shoulder_pitch >>,
      right_shoulder_roll  |-> << value.right_shoulder_roll, other.right_shoulder_roll >>,
      right_elbow_yaw      |-> << value.right_elbow_yaw, other.right_elbow_yaw >>,
      right_elbow_roll     |-> << value.right_elbow_roll, other.right_elbow_roll >>,
      right_wrist_yaw      |-> << value.right_wrist_yaw, other.right_wrist_yaw >>,
      right_hip_roll       |-> << value.right_hip_roll, other.right_hip_roll >>,
      right_hip_pitch      |-> << value.right_hip_pitch, other.right_hip_pitch >>,
      right_knee_pitch     |-> << value.right_knee_pitch, other.right_knee_pitch >>,
      right_ankle_pitch    |-> << value.right_ankle_pitch, other.right_ankle_pitch >>,
      right_ankle_roll     |-> << value.right_ankle_roll, other.right_ankle_roll >>,
      left_hand            |-> << value.left_hand, other.left_hand >>,
      right_hand           |-> << value.right_hand, other.right_hand >> ]

\* ---------------------------------------------------- #[derive(Iterable)]

\* struct TestStruct<T> { test_field_1: T, test_field_2: T }: the fields the derive
\* macro sees, in declaration order
TestStructFields == << "test_field_1", "test_field_2" >>

\* the values of the tests
TestStructs ==
    { [test_field_1 |-> 5, test_field_2 |-> -5], [test_field_1 |-> 11, test_field_2 |-> -3] }

\* impl_into_iterator: vec![self.f1.clone(), self.f2.clone(), ...].into_iter(),
\* as the items the iterator yields
Iterable_into_iter(fields, value) == [k \in 1..Len(fields) |-> value[fields[k]]]

\* a from_iter that builds the struct from the first items and ignores the rest
FromIterTakingFirst(fields, items) ==
    IF Len(items) >= Len(fields)
    THEN [ok |-> TRUE,
          value |-> [f \in { fields[k] : k \in 1..Len(fields) } |->
                        items[CHOOSE k \in 1..Len(fields) : fields[k] = f]]]
    ELSE [ok |-> FALSE, value |-> << >>]

\* impl_from_iterator: every item is pushed on collector; collector.try_into() is
\* Ok([f1, f2, ...]) when it holds exactly number_of_fields items and the struct
\* is built of them, otherwise the let-else panics
Iterable_from_iter(fields, items) ==
    IF Len(items) = Len(fields)
    THEN [ok |-> TRUE,
          value |-> [f \in { fields[k] : k \in 1..Len(fields) } |->
                        items[CHOOSE k \in 1..Len(fields) : fields[k] = f]]]
    ELSE [ok |-> FALSE, value |-> << >>]

\* the iterators handed to from_iter, as the items they yield: none, one too few,
\* the exact number, one too many
IterItems == { [i \in 1..n |-> i] : n \in 0..(Len(TestStructFields) + 1) }

\* ------------------------------------------- JointArrayIterator (types.rs)

\* enum JointArrayField
JointArrayField ==
    { "HeadYaw", "HeadPitch", "LeftShoulderPitch", "LeftShoulderRoll",
      "LeftElbowYaw", "LeftElbowRoll", "LeftWristYaw", "LeftHipYawPitch",
      "LeftHipRoll", "LeftHipPitch", "LeftKneePitch", "LeftAnklePitch",
      "LeftAnkleRoll", "RightShoulderPitch", "RightShoulderRoll", "RightElbowYaw",
      "RightElbowRoll", "RightWristYaw", "RightHipRoll", "RightHipPitch",
      "RightKneePitch", "RightAnklePitch", "RightAnkleRoll", "LeftHand", "RightHand",
      "End" }

\* JointArrayField::next(&self)
JointArrayField_next(field) ==
    CASE field = "HeadYaw"            -> "HeadPitch"
      [] field = "HeadPitch"          -> "LeftShoulderPitch"
      [] field = "LeftShoulderPitch"  -> "LeftShoulderRoll"
      [] field = "LeftShoulderRoll"   -> "LeftElbowYaw"
      [] field = "LeftElbowYaw"       -> "LeftElbowRoll"
      [] field = "LeftElbowRoll"      -> "LeftWristYaw"
      [] field = "LeftWristYaw"       -> "LeftHipYawPitch"
      [] field = "LeftHipYawPitch"    -> "LeftHipRoll"
      [] field = "LeftHipRoll"        -> "LeftHipPitch"
      [] field = "LeftHipPitch"       -> "LeftKneePitch"
      [] field = "LeftKneePitch"      -> "LeftAnklePitch"
      [] field = "LeftAnklePitch"     -> "LeftAnkleRoll"
      [] field = "LeftAnkleRoll"      -> "RightShoulderPitch"
      [] field = "RightShoulderPitch" -> "RightShoulderRoll"
      [] field = "RightShoulderRoll"  -> "RightElbowYaw"
      [] field = "RightElbowYaw"      -> "RightElbowRoll"
      [] field = "RightElbowRoll"     -> "RightWristYaw"
      [] field = "RightWristYaw"      -> "RightHipRoll"
      [] field = "RightHipRoll"       -> "RightHipPitch"
      [] field = "RightHipPitch"      -> "RightKneePitch"
      [] field = "RightKneePitch"     -> "RightAnklePitch"
      [] field = "RightAnklePitch"    -> "RightAnkleRoll"
      [] field = "RightAnkleRoll"     -> "LeftHand"
      [] field = "LeftHand"           -> "RightHand"
      [] OTHER                         -> "End"

\* the match of JointArrayIterator::next: the reference the state yields
JointArrayIterator_value(field, joint_array) ==
    CASE field = "HeadYaw"            -> Some(joint_array.head_yaw)
      [] field = "HeadPitch"          -> Some(joint_array.head_pitch)
      [] field = "LeftShoulderPitch"  -> Some(joint_array.left_shoulder_pitch)
      [] field = "LeftShoulderRoll"   -> Some(joint_array.left_shoulder_roll)
      [] field = "LeftElbowYaw"       -> Some(joint_array.left_elbow_yaw)
      [] field = "LeftElbowRoll"      -> Some(joint_array.left_elbow_roll)
      [] field = "LeftWristYaw"       -> Some(joint_array.left_wrist_yaw)
      [] field = "LeftHipYawPitch"    -> Some(joint_array.left_hip_yaw_pitch)
      [] field = "LeftHipRoll"        -> Some(joint_array.left_hip_roll)
      [] field = "LeftHipPitch"       -> Some(joint_array.left_hip_pitch)
      [] field = "LeftKneePitch"      -> Some(joint_array.left_knee_pitch)
      [] field = "LeftAnklePitch"     -> Some(joint_array.left_ankle_pitch)
      [] field = "LeftAnkleRoll"      -> Some(joint_array.left_ankle_roll)
      [] field = "RightShoulderPitch" -> Some(joint_array.right_shoulder_pitch)
      [] field = "RightShoulderRoll"  -> Some(joint_array.right_shoulder_roll)
      [] field = "RightElbowYaw"      -> Some(joint_array.right_elbow_yaw)
      [] field = "RightElbowRoll"     -> Some(joint_array.right_elbow_roll)
      [] field = "RightWristYaw"      -> Some(joint_array.right_wrist_yaw)
      [] field = "RightHipRoll"       -> Some(joint_array.right_hip_roll)
      [] field = "RightHipPitch"      -> Some(joint_array.right_hip_pitch)
      [] field = "RightKneePitch"     -> Some(joint_array.right_knee_pitch)
      [] field = "RightAnklePitch"    -> Some(joint_array.right_ankle_pitch)
      [] field = "RightAnkleRoll"     -> Some(joint_array.right_ankle_roll)
      [] field = "LeftHand"           -> Some(joint_array.left_hand)
      [] field = "RightHand"          -> Some(joint_array.right_hand)
      [] field = "End"                -> None

\* an iterator that starts at the second joint
IteratorStartingAtPitch == "HeadPitch"

\* JointArrayIterator::new(joint_array): Self(JointArrayField::HeadYaw, joint_array)
JointArrayIterator_new == "HeadYaw"

\* ------------------------------------- JointArray: positional views, machine

\* the struct under conversion is a JointArray
IsJointArray(value) == DOMAIN value = JointNames

\* from_iter has panicked: the thread makes no further call
Panicked == vop \in {"from_iter", "into_iter_from_iter"} /\ ~vout.ok

\* a JointArray whose fields all differ: 10 in the first declared field, 11 in the
\* second, and so on
CustomJoints ==
    [f \in JointNames |-> 9 + (CHOOSE k \in 1..JointCount : JointArrayFields[k] = f)]

\* the arrays the conversions start from
ViewArrays == { JointArray_fill(v) : v \in Vals } \cup {CustomJoints}

InitViews ==
    /\ varr \in ViewArrays \cup TestStructs
    /\ vop = ""
    /\ varg = << >>
    /\ vout = << >>
    /\ vn = 0
    /\ vit = "none"
    /\ vyield = << >>
    /\ IdleCodec
    /\ IdleRetry
    /\ IdleIO
    /\ IdleJoint
    /\ IdleMsg

\* let vec = joints.clone().to_vec()
VToVec ==
    /\ vn < MaxViewOps
    /\ vit = "none"
    /\ IsJointArray(varr)
    /\ vop' = "to_vec"
    /\ varg' = << >>
    /\ vout' = JointArray_to_vec(varr)
    /\ vn' = vn + 1
    /\ UNCHANGED <<varr, vit, vyield>>
    /\ UNCHANGED viewOthers

\* JointArray::try_from(&values[..])
VTryFrom(values) ==
    /\ vn < MaxViewOps
    /\ vit = "none"
    /\ IsJointArray(varr)
    /\ vop' = "try_from"
    /\ varg' = values
    /\ vout' = JointArray_try_from(values)
    /\ vn' = vn + 1
    /\ UNCHANGED <<varr, vit, vyield>>
    /\ UNCHANGED viewOthers

\* let vec = joints.clone().to_vec(); JointArray::try_from(&vec[..])
VToVecTryFrom ==
    /\ vn < MaxViewOps
    /\ vit = "none"
    /\ IsJointArray(varr)
    /\ vop' = "to_vec_try_from"
    /\ varg' = JointArray_to_vec(varr)
    /\ vout' = JointArray_try_from(JointArray_to_vec(varr))
    /\ vn' = vn + 1
    /\ UNCHANGED <<varr, vit, vyield>>
    /\ UNCHANGED viewOthers

\* let t2 = joints.clone().map(f)
VMap(f) ==
    /\ vn < MaxViewOps
    /\ vit = "none"
    /\ IsJointArray(varr)
    /\ vop' = "map"
    /\ varg' = f
    /\ vout' = JointArray_map(varr, f)
    /\ vn' = vn + 1
    /\ UNCHANGED <<varr, vit, vyield>>
    /\ UNCHANGED viewOthers

\* let t3 = joints.clone().zip(other)
VZip(other) ==
    /\ vn < MaxViewOps
    /\ vit = "none"
    /\ IsJointArray(varr)
    /\ vop' = "zip"
    /\ varg' = other
    /\ vout' = JointArray_zip(varr, other)
    /\ vn' = vn + 1
    /\ UNCHANGED <<varr, vit, vyield>>
    /\ UNCHANGED viewOthers

\* t.into_iter(), on a struct that derives Iterable
VIntoIter ==
    /\ vn < MaxViewOps
    /\ vit = "none"
    /\ ~IsJointArray(varr)
    /\ ~Panicked
    /\ vop' = "into_iter"
    /\ varg' = << >>
    /\ vout' = Iterable_into_iter(TestStructFields, varr)
    /\ vn' = vn + 1
    /\ UNCHANGED <<varr, vit, vyield>>
    /\ UNCHANGED viewOthers

\* TestStruct::from_iter(items)
VFromIter(items) ==
    /\ vn < MaxViewOps
    /\ vit = "none"
    /\ ~IsJointArray(varr)
    /\ ~Panicked
    /\ vop' = "from_iter"
    /\ varg' = items
    /\ vout' = Iterable_from_iter(TestStructFields, items)
    /\ vn' = vn + 1
    /\ UNCHANGED <<varr, vit, vyield>>
    /\ UNCHANGED viewOthers

\* TestStruct::from_iter(t.into_iter())
VIntoIterFromIter ==
    /\ vn < MaxViewOps
    /\ vit = "none"
    /\ ~IsJointArray(varr)
    /\ ~Panicked
    /\ vop' = "into_iter_from_iter"
    /\ varg' = Iterable_into_iter(TestStructFields, varr)
    /\ vout' = Iterable_from_iter(TestStructFields,
                                  Iterable_into_iter(TestStructFields, varr))
    /\ vn' = vn + 1
    /\ UNCHANGED <<varr, vit, vyield>>
    /\ UNCHANGED viewOthers

\* let mut it = joints.iter(): the calls above are made on an array that is
\* not being iterated, the iterator is made of one no call was made on
VIter ==
    /\ vn = 0
    /\ IsJointArray(varr)
    /\ vit = "none"
    /\ vit' = JointArrayIterator_new
    /\ UNCHANGED <<varr, vop, varg, vout, vn, vyield>>
    /\ UNCHANGED viewOthers

\* it.next(): the value the state yields, then self.0 = self.0.next()
VNext ==
    /\ vit # "none"
    /\ Len(vyield) < MaxNext
    /\ vyield' = Append(vyield, JointArrayIterator_value(vit, varr))
    /\ vit' = JointArrayField_next(vit)
    /\ UNCHANGED <<varr, vop, varg, vout, vn>>
    /\ UNCHANGED viewOthers

\* the builders a chain of setters starts from: JointArray::builder(), and
\* JointArray::builder().joints(a)
StartBuilders ==
    {JointArray_builder}
        \cup { JointArrayBuilder_joints(JointArray_builder, a) : a \in ViewArrays }

\* the name of the call of a group setter
SetterOp(g) ==
    CASE g = "head"      -> "builder.head_joints"
      [] g = "left_arm"  -> "builder.left_arm_joints"
      [] g = "right_arm" -> "builder.right_arm_joints"
      [] g = "left_leg"  -> "builder.left_leg_joints"
      [] g = "right_leg" -> "builder.right_leg_joints"
      [] g = "leg"       -> "builder.leg_joints"
      [] g = "arm"       -> "builder.arm_joints"

SetterOps == { SetterOp(g) : g \in SetterNames }

\* let b = start.g_joints(joints.g_joints())
VBuilderSet(start, g) ==
    /\ vn < MaxViewOps
    /\ vit = "none"
    /\ IsJointArray(varr)
    /\ vop' = SetterOp(g)
    /\ varg' = [builder |-> start, joints |-> GroupValue(g, varr)]
    /\ vout' = JointArrayBuilder_set(start, g, GroupValue(g, varr))
    /\ vn' = vn + 1
    /\ UNCHANGED <<varr, vit, vyield>>
    /\ UNCHANGED viewOthers

\* let b = b.g_joints(joints.g_joints()): the next setter of the chain
VBuilderChain(g) ==
    /\ vn < MaxViewOps
    /\ vit = "none"
    /\ IsJointArray(varr)
    /\ vop \in SetterOps
    /\ vop' = SetterOp(g)
    /\ varg' = [builder |-> vout, joints |-> GroupValue(g, varr)]
    /\ vout' = JointArrayBuilder_set(vout, g, GroupValue(g, varr))
    /\ vn' = vn + 1
    /\ UNCHANGED <<varr, vit, vyield>>
    /\ UNCHANGED viewOthers

\* joints.get(index).copied()
VGet(index) ==
    /\ vn < MaxViewOps
    /\ vit = "none"
    /\ IsJointArray(varr)
    /\ vop' = "get"
    /\ varg' = index
    /\ LET r == JointArray_get(index)
       IN  vout' = IF r.some THEN Some(Borrow(varr, r.field)) ELSE None
    /\ vn' = vn + 1
    /\ UNCHANGED <<varr, vit, vyield>>
    /\ UNCHANGED viewOthers

\* let mut j = joints.clone(); if let Some(r) = j.get_mut(index) { *r = v }; j
VGetMut(index, v) ==
    /\ vn < MaxViewOps
    /\ vit = "none"
    /\ IsJointArray(varr)
    /\ vop' = "get_mut"
    /\ varg' = [index |-> index, value |-> v]
    /\ LET r == JointArray_get_mut(index)
       IN  vout' = IF r.some THEN [varr EXCEPT ![r.field] = v] ELSE varr
    /\ vn' = vn + 1
    /\ UNCHANGED <<varr, vit, vyield>>
    /\ UNCHANGED viewOthers

\* joints.clone().as_array()
VAsArray ==
    /\ vn < MaxViewOps
    /\ vit = "none"
    /\ IsJointArray(varr)
    /\ vop' = "as_array"
    /\ varg' = << >>
    /\ vout' = JointArray_as_array(varr)
    /\ vn' = vn + 1
    /\ UNCHANGED <<varr, vit, vyield>>
    /\ UNCHANGED viewOthers

\* joints.as_array_ref()
VAsArrayRef ==
    /\ vn < MaxViewOps
    /\ vit = "none"
    /\ IsJointArray(varr)
    /\ vop' = "as_array_ref"
    /\ varg' = << >>
    /\ vout' = [k \in 1..Len(JointArray_as_array_ref) |->
                    Borrow(varr, JointArray_as_array_ref[k])]
    /\ vn' = vn + 1
    /\ UNCHANGED <<varr, vit, vyield>>
    /\ UNCHANGED viewOthers

\* let mut j = joints.clone(); *j.as_array_mut()[index] = v; j
VAsArrayMut(index, v) ==
    /\ vn < MaxViewOps
    /\ vit = "none"
    /\ IsJointArray(varr)
    /\ vop' = "as_array_mut"
    /\ varg' = [index |-> index, value |-> v]
    /\ vout' = [varr EXCEPT ![JointArray_as_array_mut[index + 1]] = v]
    /\ vn' = vn + 1
    /\ UNCHANGED <<varr, vit, vyield>>
    /\ UNCHANGED viewOthers

\* joints.clone().into_iter().collect::<Vec<_>>()
VJointsIntoIter ==
    /\ vn < MaxViewOps
    /\ vit = "none"
    /\ IsJointArray(varr)
    /\ vop' = "JointArray::into_iter"
    /\ varg' = << >>
    /\ vout' = JointArray_into_iter(varr)
    /\ vn' = vn + 1
    /\ UNCHANGED <<varr, vit, vyield>>
    /\ UNCHANGED viewOthers

\* (&joints).into_iter().collect::<Vec<_>>()
VJointsRefIntoIter ==
    /\ vn < MaxViewOps
    /\ vit = "none"
    /\ IsJointArray(varr)
    /\ vop' = "&JointArray::into_iter"
    /\ varg' = << >>
    /\ vout' = [k \in 1..Len(JointArray_ref_into_iter) |->
                    Borrow(varr, JointArray_ref_into_iter[k])]
    /\ vn' = vn + 1
    /\ UNCHANGED <<varr, vit, vyield>>
    /\ UNCHANGED viewOthers

\* the indices as_array_mut()[index] can be written at without a panic
ArrayIndices == 0..(JointCount - 1)

NextViews ==
    \/ VIter
    \/ VNext
    \/ VIntoIter
    \/ \E items \in IterItems : VFromIter(items)
    \/ VIntoIterFromIter
    \/ \E f \in MapFns : VMap(f)
    \/ \E other \in ViewArrays : VZip(other)
    \/ VToVec
    \/ \E values \in Slices : VTryFrom(values)
    \/ VToVecTryFrom
    \/ \E start \in StartBuilders, g \in SetterNames : VBuilderSet(start, g)
    \/ \E g \in SetterNames : VBuilderChain(g)
    \/ \E index \in JointIndices : VGet(index)
    \/ \E index \in JointIndices, v \in Vals : VGetMut(index, v)
    \/ VAsArray
    \/ VAsArrayRef
    \/ \E index \in ArrayIndices, v \in Vals : VAsArrayMut(index, v)
    \/ VJointsIntoIter
    \/ VJointsRefIntoIter

SpecViews == InitViews /\ [][NextViews]_vars

\* ------------------------------------------------------------------ claims

\* C1: Skull codec round trip: for every Skull value x, from_lola(from_nidhogg(x))
\* equals x field by field (left_front_0 and left_front_1 keep their own values).
C1_SkullRoundTrip ==
    (kind = "Skull" /\ cpc = "decoded") => back = val

\* C2: RightEye codec round trip: for every RightEye value x, decoding the 24-slot
\* array produced by encoding x yields x: every LED r0..r7 gets back its own red,
\* green and blue components.
C2_RightEyeRoundTrip ==
    (kind = "RightEye" /\ cpc = "decoded") => back = val

\* every connect() made so far failed
AllConnectsFailed == \A p \in 1..Len(Connects) : ~Connects[p].ok

C3_Bound ==
    AllConnectsFailed =>
        /\ Len(Connects) <= retry_count + 1
        /\ rpc # "unreachable"
        /\ rpc = "returned" =>
              /\ Len(Connects) = retry_count + 1
              /\ result = ConnectResult(FALSE, retry_count + 1)

\* C3: retry bound: connect_with_retry(n, interval) against a transport whose every
\* connect() fails makes exactly n+1 connect attempts (for every n >= 0), then
\* terminates and returns the failure of the last, (n+1)-th, attempt.
C3_RetryBound ==
    /\ [](retry_fn \in RetryFns => C3_Bound)
    /\ (retry_fn \in RetryFns) ~> (rpc = "returned")

\* connect_with_retry(3, interval) returned after four failed attempts
C3_Witness ==
    /\ retry_fn = "ConnectWithRetryExt::connect_with_retry"
    /\ retry_count = 3
    /\ rpc = "returned"
    /\ AllConnectsFailed
    /\ Len(Connects) = 4
    /\ result = ConnectResult(FALSE, 4)

\* C4: sleep placement in connect_with_retry(n, interval): a sleep of the constant
\* interval happens after each failed attempt that is not the final one, and never
\* after the final attempt nor after a successful attempt; when all n+1 attempts
\* fail there are exactly n sleeps, each strictly between two consecutive attempts.
C4_SleepPlacement ==
    retry_fn \in RetryFns =>
        /\ \A p \in 1..Len(log) :
              log[p].op = "sleep" =>
                 /\ log[p].arg = retry_interval
                 /\ p > 1
                 /\ log[p - 1].op = "connect"
                 /\ ~log[p - 1].ok
                 /\ log[p - 1].arg <= retry_count
                 /\ p < Len(log) => log[p + 1].op = "connect"
        /\ \A p \in 1..Len(log) :
              (log[p].op = "connect" /\ p < Len(log)) =>
                 /\ ~log[p].ok
                 /\ log[p + 1].op = "sleep"
        /\ rpc = "returned" =>
              /\ log[Len(log)].op = "connect"
              /\ AllConnectsFailed => Len(Sleeps) = retry_count

\* connect_with_path_with_retry(2, 2) returned after three failed attempts and
\* two sleeps of 2
C4_Witness ==
    /\ retry_fn = "LolaBackend::connect_with_path_with_retry"
    /\ retry_count = 2
    /\ retry_interval = 2
    /\ rpc = "returned"
    /\ AllConnectsFailed
    /\ Len(Sleeps) = 2
    /\ log[2] = SleepEvent(2)
    /\ log[4] = SleepEvent(2)

\* C5: first success wins in connect_with_retry(n, interval): if attempt k
\* (1 <= k <= n+1) is the first that succeeds, exactly k connect attempts and k-1
\* sleeps occur, no connect attempt is made after the success, the connected
\* backend of attempt k is returned, and the k-1 earlier failures are not reported.
C5_FirstSuccessWins ==
    retry_fn \in RetryFns =>
        \A k \in 1..Len(Connects) :
            Connects[k].ok =>
               /\ k <= retry_count + 1
               /\ \A j \in 1..(k - 1) : ~Connects[j].ok
               /\ Len(Connects) = k
               /\ Len(Sleeps) = k - 1
               /\ log[Len(log)] = ConnectEvent(TRUE, k)
               /\ rpc \in {"check", "returned"}
               /\ rpc = "returned" => result = ConnectResult(TRUE, k)

\* connect_with_retry(3, interval) returned the backend of the third attempt
C5_Witness ==
    /\ retry_fn = "ConnectWithRetryExt::connect_with_retry"
    /\ retry_count = 3
    /\ rpc = "returned"
    /\ result = ConnectResult(TRUE, 3)
    /\ Len(Connects) = 3
    /\ Len(Sleeps) = 2

\* C6: write errors propagate: if writing the encoded control message to the
\* transport fails (the socket write returns an I/O error), send_control_msg /
\* write_update returns an error to its caller; it never returns Ok(()) for a
\* message whose bytes were not written.
C6_WriteErrorsPropagate ==
    (io_backend \in IoBackends /\ io_res # << >> /\ io_res.op = "send_control_msg") =>
        /\ io_res.write_failed => io_res.outcome = "Err"
        /\ io_res.outcome = "Ok" => io_res.wrote = ControlMsgLen

\* C7: frame truncation is an error value: when the transport delivers fewer than
\* 896 bytes before end of stream, read_nao_state (and read_hardware_info) returns
\* an Err to the caller without panicking and without retrying, and that error is
\* of a different kind than the decode-failure error (MsgPackDecodeError).
C7_TruncationIsAnError ==
    (io_backend \in IoBackends /\ io_res # << >>
       /\ io_res.op \in {"read_nao_state", "read_hardware_info"} /\ io_res.truncated) =>
        /\ io_res.outcome = "Err"
        /\ io_pc # "panicked"
        /\ io_res.err # "MsgPackDecodeError"
        /\ io_res.took < LOLA_BUFFER_SIZE

\* C8: JointArray indexed access uses the canonical (wire) position: for every i in
\* 0..=24, get(i) and get_mut(i) refer to the same joint that the wire codec places
\* at index i of the 25-slot array (e.g. index 13 is right_hip_roll and index 18 is
\* right_shoulder_pitch).
C8_IndexIsWirePosition ==
    (jres # << >> /\ jres.op \in {"get", "get_mut"} /\ jres.index \in 0..24) =>
        /\ jres.some
        /\ jres.field = JointArrayWireOrder[jres.index + 1]
        /\ jres.value = JointArray_from_nidhogg(joints)[jres.index + 1]

\* the builder on which chest(RGB(1,0,0)) was called and nothing else
OnlyChestRed ==
    builder = Builder_set(NaoControlMessage_builder, "chest",
                          [red |-> 1, green |-> 0, blue |-> 0])

Zeros(n) == [k \in 1..n |-> 0]

\* C9: control round-trip scenario: a control message built with
\* NaoControlMessage::builder() where only chest is set to RGB(1,0,0) encodes to
\* Chest == [1.0, 0.0, 0.0] and every other wire field equal to its documented
\* default: Position is 25 times -1.0, Stiffness is 25 times 0, Sonar == [true, true],
\* and all LED arrays are zero.
C9_ControlRoundTrip ==
    (mpc = "encoded" /\ msrc = "builder" /\ OnlyChestRed) =>
        /\ raw.Chest = <<1, 0, 0>>
        /\ raw.Position = [k \in 1..25 |-> -1]
        /\ raw.Stiffness = Zeros(25)
        /\ raw.Sonar = <<TRUE, TRUE>>
        /\ raw.LEar = Zeros(10) /\ raw.REar = Zeros(10)
        /\ raw.LEye = Zeros(24) /\ raw.REye = Zeros(24)
        /\ raw.LFoot = Zeros(3) /\ raw.RFoot = Zeros(3)
        /\ raw.Skull = Zeros(12)

PermutationKinds == {"JointArray", "LeftEar", "RightEar", "LeftEye"}

\* C11: codec round trip for JointArray, LeftEar, RightEar and LeftEye: for every
\* value x of each of these types, decoding the wire array produced by encoding x
\* yields x, and for every wire array w, encoding the decoded value yields w (the
\* decoder is the exact inverse permutation of the encoder).
C11_PermutationRoundTrip ==
    kind \in PermutationKinds =>
        /\ cpc = "decoded" => back = val
        /\ cpc = "repacked" => back = wire

C11_Witness ==
    /\ kind = "JointArray"
    /\ cpc = "decoded"
    /\ val.right_hip_roll = 1
    /\ val.right_shoulder_pitch = 0
    /\ back = val

\* C12: JointArray wire order: encoding a JointArray places its fields in the 25-slot
\* array in the order head_yaw, head_pitch, left arm (shoulder_pitch, shoulder_roll,
\* elbow_yaw, elbow_roll, wrist_yaw), left leg (hip_yaw_pitch, hip_roll, hip_pitch,
\* knee_pitch, ankle_pitch, ankle_roll), right leg (hip_roll .. ankle_roll), right arm
\* (shoulder_pitch .. wrist_yaw), left_hand, right_hand; each field appears exactly
\* once, so setting only right_hand gives that value at wire index 24 and the other
\* 24 indices at their default.
C12_JointArrayWireOrder ==
    (kind \in {"JointArray", "nao::JointArray"} /\ cpc = "encoded") =>
        /\ wire = << val.head_yaw, val.head_pitch,
                     val.left_shoulder_pitch, val.left_shoulder_roll, val.left_elbow_yaw,
                     val.left_elbow_roll, val.left_wrist_yaw,
                     val.left_hip_yaw_pitch, val.left_hip_roll, val.left_hip_pitch,
                     val.left_knee_pitch, val.left_ankle_pitch, val.left_ankle_roll,
                     val.right_hip_roll, val.right_hip_pitch, val.right_knee_pitch,
                     val.right_ankle_pitch, val.right_ankle_roll,
                     val.right_shoulder_pitch, val.right_shoulder_roll, val.right_elbow_yaw,
                     val.right_elbow_roll, val.right_wrist_yaw,
                     val.left_hand, val.right_hand >>
        /\ \A v \in Vals :
              val = [JointArray_default EXCEPT !.right_hand = v] =>
                  wire = [i \in 1..25 |-> IF i = 25 THEN v ELSE 0]

C12_Witness ==
    /\ kind = "JointArray"
    /\ cpc = "encoded"
    /\ val = [JointArray_default EXCEPT !.right_hand = 1]
    /\ wire[25] = 1

\* C13: ear mirroring: for every i in 0..=9 the left-ear encoder puts logical slot i
\* at wire index i (identity) and the right-ear encoder puts logical slot 9-i at wire
\* index i (full reversal); e.g. a value at logical slot 3 lands at left wire index 3
\* and at right wire index 6.
C13_EarMirroring ==
    LET l == <<"l0", "l1", "l2", "l3", "l4", "l5", "l6", "l7", "l8", "l9">>
        r == <<"r0", "r1", "r2", "r3", "r4", "r5", "r6", "r7", "r8", "r9">>
        deg == EarDegFields
    IN  cpc = "encoded" =>
          /\ kind = "LeftEar" => \A i \in 0..9 : wire[i + 1] = val[l[i + 1]]
          /\ kind = "RightEar" => \A i \in 0..9 : wire[i + 1] = val[r[(9 - i) + 1]]
          /\ kind \in {"backends::LeftEar", "Ear<Left>"} =>
                \A i \in 0..9 : wire[i + 1] = val[deg[i + 1]]
          /\ kind \in {"backends::RightEar", "Ear<Right>"} =>
                \A i \in 0..9 : wire[i + 1] = val[deg[(9 - i) + 1]]

C13_Witness ==
    /\ kind = "RightEar"
    /\ cpc = "encoded"
    /\ val = [RightEar_default EXCEPT !.r3 = 1]
    /\ wire[7] = 1

\* C14: Skull wire order: the Skull encoder emits the 12 intensities in the
\* walk-around-the-head order left_front_0, left_front_1, left_middle_0, left_rear_0,
\* left_rear_1, left_rear_2, right_rear_2, right_rear_1, right_rear_0, right_middle_0,
\* right_front_0, right_front_1, each field exactly once.
C14_SkullWireOrder ==
    (kind \in {"Skull", "nao::Skull"} /\ cpc = "encoded") =>
        wire = << val.left_front_0, val.left_front_1, val.left_middle_0,
                  val.left_rear_0, val.left_rear_1, val.left_rear_2,
                  val.right_rear_2, val.right_rear_1, val.right_rear_0,
                  val.right_middle_0, val.right_front_0, val.right_front_1 >>

C14_Witness ==
    /\ kind = "Skull"
    /\ cpc = "encoded"
    /\ val = [Skull_default EXCEPT !.right_rear_2 = 1]
    /\ wire[7] = 1

\* the eye e and the array w agree block by block: slot k of the red, of the green and
\* of the blue block hold the three channels of one LED, and every block holds each
\* value as often as the LEDs hold it in that channel
ChannelBlocked(e, w) ==
    /\ Len(w) = 24
    /\ \A k \in 1..8 :
          \E f \in DOMAIN e :
              /\ w[k] = e[f].red
              /\ w[8 + k] = e[f].green
              /\ w[16 + k] = e[f].blue
    /\ \A v \in Vals :
          /\ Cardinality({k \in 1..8 : w[k] = v}) = Cardinality({f \in DOMAIN e : e[f].red = v})
          /\ Cardinality({k \in 1..8 : w[8 + k] = v})
                = Cardinality({f \in DOMAIN e : e[f].green = v})
          /\ Cardinality({k \in 1..8 : w[16 + k] = v})
                = Cardinality({f \in DOMAIN e : e[f].blue = v})

\* C15: eye wire layout is channel-blocked, not interleaved: for both eyes, wire
\* indices 0..7 hold red, 8..15 green and 16..23 blue components, and the LED
\* permutation is identical in the three blocks, i.e. for every k in 0..=7 wire[k],
\* wire[8+k] and wire[16+k] are the red, green and blue of one and the same LED, and
\* each of the 8 LEDs occurs exactly once per block; this holds for the encoders and
\* for the decoders.
C15_EyeChannelBlocks ==
    kind \in EyeKinds =>
        /\ cpc \in {"encoded", "unpacked"} => ChannelBlocked(val, wire)
        /\ cpc = "decoded" => ChannelBlocked(back, wire)

C15_Witness ==
    /\ kind = "LeftEye"
    /\ cpc = "encoded"
    /\ val = [LeftEye_default EXCEPT !.l0 = [red |-> 1, green |-> 1, blue |-> 0]]
    /\ wire[2] = 1
    /\ wire[10] = 1
    /\ wire[18] = 0

\* C16: JointArray group round trip: for every JointArray x, building a JointArray
\* from head_joints(x), left_arm_joints(x), right_arm_joints(x), left_leg_joints(x)
\* and right_leg_joints(x) via the builder's group setters (in any order) yields a
\* JointArray equal to x in all 25 fields.
C16_GroupRoundTrip ==
    (jres # << >> /\ jres.op = "from_groups") =>
        /\ DOMAIN jbuilt = JointNames
        /\ \A f \in JointNames : jbuilt[f] = joints[f]

C16_Witness ==
    /\ jres # << >>
    /\ jres.op = "from_groups"
    /\ joints.left_hip_yaw_pitch = 1
    /\ joints.head_yaw = 0
    /\ jbuilt = joints

\* C17, as stated: the shared hip-yaw-pitch is mirrored onto both legs: when a
\* JointArray is expanded into its per-leg groups, the single hip-yaw-pitch value
\* carried in the left_hip_yaw_pitch wire slot (index 7) appears in the hip-yaw-pitch
\* field of both the left-leg group and the right-leg group.
C17_HipYawPitchOnBothLegs ==
    (jres # << >> /\ jres.op = "leg_joints") =>
        /\ jgroups.left_leg.hip_yaw_pitch = JointArray_from_nidhogg(joints)[8]
        /\ "hip_yaw_pitch" \in DOMAIN jgroups.right_leg
        /\ jgroups.right_leg.hip_yaw_pitch = JointArray_from_nidhogg(joints)[8]

\* C17, amended: when a JointArray is expanded into its per-leg groups, the single
\* hip-yaw-pitch value carried in the left_hip_yaw_pitch wire slot (index 7) appears
\* in the hip_yaw_pitch field of the left-leg group only; the right-leg group has no
\* hip-yaw-pitch field and holds the five right-leg joints hip_roll, hip_pitch,
\* knee_pitch, ankle_pitch, ankle_roll.
C17_HipYawPitchOnLeftLegOnly ==
    (jres # << >> /\ jres.op = "leg_joints") =>
        /\ jgroups.left_leg.hip_yaw_pitch = JointArray_from_nidhogg(joints)[8]
        /\ DOMAIN jgroups.right_leg =
              {"hip_roll", "hip_pitch", "knee_pitch", "ankle_pitch", "ankle_roll"}
        /\ jgroups.right_leg.hip_roll = joints.right_hip_roll
        /\ jgroups.right_leg.hip_pitch = joints.right_hip_pitch
        /\ jgroups.right_leg.knee_pitch = joints.right_knee_pitch
        /\ jgroups.right_leg.ankle_pitch = joints.right_ankle_pitch
        /\ jgroups.right_leg.ankle_roll = joints.right_ankle_roll

C17_Witness ==
    /\ jres # << >>
    /\ jres.op = "leg_joints"
    /\ joints.left_hip_yaw_pitch = 1
    /\ joints.right_hip_roll = 0
    /\ jgroups.left_leg.hip_yaw_pitch = 1

\* the entries of a call history that are reads
IsRead(e) == e.res.op \in {"read_nao_state", "read_hardware_info"}

\* the positions of the reads of a history that returned Ok, and of those that did not
SuccessfulReads(h) == { i \in 1..Len(h) : IsRead(h[i]) /\ h[i].res.outcome = "Ok" }
FailedReads(h) == { i \in 1..Len(h) : IsRead(h[i]) /\ h[i].res.outcome # "Ok" }

\* the bytes the calls at the positions S of a history took from the socket
RECURSIVE BytesTaken(_, _)
BytesTaken(h, S) ==
    IF S = {} THEN 0
    ELSE LET i == CHOOSE x \in S : TRUE
         IN  h[i].res.took + BytesTaken(h, S \ {i})

\* C18: every read_nao_state or read_hardware_info that returns Ok took exactly 896
\* bytes from the socket, whatever the frame held and whichever of the two calls it
\* was; so the k successful reads of any sequence of calls took 896 * k bytes
\* together, and when no read failed that is all that was consumed.
C18_FixedFrameSize ==
    /\ \A i \in SuccessfulReads(io_hist) : io_hist[i].res.took = LOLA_BUFFER_SIZE
    /\ consumed = LOLA_BUFFER_SIZE * Cardinality(SuccessfulReads(io_hist))
                     + BytesTaken(io_hist, FailedReads(io_hist))
    /\ FailedReads(io_hist) = {}
          => consumed = LOLA_BUFFER_SIZE * Cardinality(SuccessfulReads(io_hist))

\* both calls have returned Ok, one after the other, and 2 * 896 bytes are gone
C18_Witness ==
    /\ \E i, j \in SuccessfulReads(io_hist) :
          /\ io_hist[i].res.op = "read_hardware_info"
          /\ io_hist[j].res.op = "read_nao_state"
    /\ FailedReads(io_hist) = {}
    /\ consumed = 2 * LOLA_BUFFER_SIZE

\* a history entry that was served a whole 896-byte frame
ReadWholeFrame(e) == IsRead(e) /\ e.chunk # << >> /\ e.chunk[1].len = LOLA_BUFFER_SIZE

\* a history entry that was served a whole frame that does not parse
ReadBadFrame(e) == ReadWholeFrame(e) /\ e.chunk[1].parse = "bad"

\* the position of the first read after position i of a history, 0 when there is none
NextRead(h, i) ==
    LET later == { j \in (i + 1)..Len(h) : IsRead(h[j]) }
    IN  IF later = {} THEN 0 ELSE CHOOSE j \in later : \A k \in later : j <= k

\* what the call op returns for the whole frame c when nothing but c decides it
WholeFrameResult(op, c) ==
    IoResult(op,
             IF c.parse = "ok" THEN "Ok" ELSE "Err",
             IF c.parse = "ok" THEN "" ELSE "MsgPackDecodeError",
             IF c.parse = "ok" THEN c.id ELSE 0,
             LOLA_BUFFER_SIZE, FALSE, 0, FALSE)

\* C19: a read that receives a whole 896-byte frame that does not parse returns
\* the decode error and has taken all 896 bytes; the read after it is served the
\* frame that follows in the stream and returns what that frame alone decides,
\* the same as it does after a read that succeeded.
C19_DecodeFailureIsConfined ==
    \A i \in 1..Len(io_hist) :
        LET e == io_hist[i]
            j == NextRead(io_hist, i)
        IN  /\ ReadBadFrame(e) =>
                /\ e.res.outcome = "Err"
                /\ e.res.err = "MsgPackDecodeError"
                /\ e.res.took = LOLA_BUFFER_SIZE
                /\ ~e.res.truncated
            /\ (ReadWholeFrame(e) /\ j # 0 /\ ReadWholeFrame(io_hist[j])) =>
                    /\ io_hist[j].chunk[1].id = e.chunk[1].id + 1
                    /\ io_hist[j].res = WholeFrameResult(io_hist[j].res.op, io_hist[j].chunk[1])

\* Nao, whose buffer outlives the call: a frame failed to parse, and the read after
\* it returned the state of the frame that followed
C19_Witness ==
    /\ io_backend = "Nao"
    /\ \E i \in 1..Len(io_hist) :
          LET j == NextRead(io_hist, i)
          IN  /\ ReadBadFrame(io_hist[i])
              /\ io_hist[i].res.err = "MsgPackDecodeError"
              /\ j # 0
              /\ io_hist[j].res.outcome = "Ok"
              /\ io_hist[j].res.frame = io_hist[i].chunk[1].id + 1

\* C20: a caller that has obtained the sensor state (read_nao_state returned Ok)
\* and the hardware-identity tuple (read_hardware_info returned Ok) has both from
\* one and the same 896-byte frame, and obtaining the two took one frame from the
\* socket.
C20_StateAndHardwareInfoFromOneFrame ==
    \A i, j \in SuccessfulReads(io_hist) :
        (io_hist[i].res.op = "read_nao_state" /\ io_hist[j].res.op = "read_hardware_info")
            => /\ io_hist[i].res.frame = io_hist[j].res.frame
               /\ BytesTaken(io_hist, {i, j}) = LOLA_BUFFER_SIZE

\* the names of a foot's four sensors, in the order of the wire
FootOrder == << "front_left", "front_right", "rear_left", "rear_right" >>

\* C21: the state aggregates are decoded by position: Battery[0..3] are charge,
\* current, status, temperature; FSR[0..3] are the left foot and FSR[4..7] the
\* right foot, each front_left, front_right, rear_left, rear_right; Touch[0..13]
\* are the 14 sensors in declaration order; RobotConfig[0..3] are body_id,
\* body_version, head_id, head_version.  Each decoded field equals the wire value
\* at its position, and the fields and the positions correspond one to one.
C21_StateDecodeIsPositional ==
    (cpc = "unpacked" /\ kind \in StateKinds) =>
        CASE kind = "Battery" ->
               /\ DOMAIN val = {"charge", "current", "status", "temperature"}
               /\ << val.charge, val.current, val.status, val.temperature >> = wire
          [] kind = "ForceSensitiveResistors" ->
               /\ DOMAIN val = {"left_foot", "right_foot"}
               /\ \A foot \in DOMAIN val : DOMAIN val[foot] = { FootOrder[i] : i \in 1..4 }
               /\ \A i \in 1..4 : /\ val.left_foot[FootOrder[i]] = wire[i]
                                  /\ val.right_foot[FootOrder[i]] = wire[4 + i]
          [] kind = "Touch" ->
               /\ DOMAIN val = { TouchFields[i] : i \in 1..14 }
               /\ Cardinality(DOMAIN val) = Len(wire)
               /\ \A i \in 1..14 : val[TouchFields[i]] = wire[i]
          [] kind = "HardwareInfo" ->
               /\ DOMAIN val = {"body_id", "body_version", "head_id", "head_version"}
               /\ << val.body_id, val.body_version, val.head_id, val.head_version >> = wire

\* a frame whose FSR array holds a value for the right foot's front_left sensor only
\* has been decoded
C21_Witness ==
    /\ kind = "ForceSensitiveResistors"
    /\ cpc = "unpacked"
    /\ wire = [i \in 1..8 |-> IF i = 5 THEN 1 ELSE 0]
    /\ val.right_foot.front_left = 1
    /\ val.left_foot.front_left = 0

\* C22: get(i) and get_mut(i) return Some for every i in 0..=24 and None for every
\* i from 25 on, and a get or get_mut call with an index from 25 on leaves the
\* JointArray as it was.
C22_OutOfRangeIsNone ==
    [][ (jn' = jn + 1 /\ jres'.op \in {"get", "get_mut"}) =>
            /\ jres'.index \in 0..24 => jres'.some
            /\ jres'.index >= 25 => (~jres'.some /\ joints' = joints) ]_vars

\* get_mut(25) has returned None
C22_Witness ==
    /\ jres # << >>
    /\ jres.op = "get_mut"
    /\ jres.index = 25
    /\ ~jres.some

\* C23: try_from(slice) returns the Err with the fixed message exactly when the
\* slice does not hold 25 elements, shorter or longer, and for every JointArray x
\* try_from(&x.to_vec()) is Ok and holds a JointArray equal to x at every index
\* 0..=24.
C23_SliceConversion ==
    /\ vop \in {"try_from", "to_vec_try_from"} =>
          /\ ~vout.ok <=> Len(varg) # 25
          /\ ~vout.ok => vout.err = "Slice must contain exactly 25 elements to convert to JointArray"
    /\ vop = "to_vec_try_from" =>
          /\ vout.ok
          /\ \A i \in 0..24 :
                vout.value[JointArray_get(i).field] = varr[JointArray_get(i).field]

\* a JointArray whose fields all differ went through to_vec and try_from
C23_Witness ==
    /\ vop = "to_vec_try_from"
    /\ varr = CustomJoints
    /\ vout.ok
    /\ vout.value = varr

\* C24: map and zip keep the 25 slots in place: for every i in 0..=24,
\* x.map(f).get(i) is f(x.get(i)) and x.zip(y).get(i) is (x.get(i), y.get(i)); the
\* result has the 25 fields and no others.
C24_MapZipKeepSlots ==
    /\ vop = "map" =>
          /\ DOMAIN vout = JointNames
          /\ \A i \in 0..24 :
                vout[JointArray_get(i).field] = ApplyFn(varg, varr[JointArray_get(i).field])
    /\ vop = "zip" =>
          /\ DOMAIN vout = JointNames
          /\ \A i \in 0..24 :
                vout[JointArray_get(i).field]
                    = << varr[JointArray_get(i).field], varg[JointArray_get(i).field] >>

\* a uniform array was zipped with one whose fields all differ
C24_Witness ==
    /\ vop = "zip"
    /\ varr = JointArray_fill(1)
    /\ varg = CustomJoints
    /\ vout.left_hand = << 1, 33 >>
    /\ vout.right_hand = << 1, 34 >>

\* C25: Nao::connect_retry(n, interval) makes up to n+1 connection attempts, the
\* initial attempt and n retries, and returns the first success or, when all
\* attempts fail, the failure of the last, (n+1)-th, one.
C25_NaoRetryBound ==
    retry_fn = NaoRetryFn =>
        /\ Len(Connects) <= retry_count + 1
        /\ rpc # "unreachable"
        /\ rpc = "returned" =>
              /\ result = ConnectResult(Connects[Len(Connects)].ok, Len(Connects))
              /\ \A k \in 1..(Len(Connects) - 1) : ~Connects[k].ok
              /\ ~result.ok => Len(Connects) = retry_count + 1

\* C28: the retry functions always return: for every retry count n >= 0 and every
\* sequence of connect outcomes, connect_with_retry, connect_with_path_with_retry
\* and Nao::connect_retry never reach the unreachable!() after their loop.
C28_NeverUnreachable ==
    retry_fn \in AllRetryFns => rpc # "unreachable"

\* C26: for a struct with N same-typed fields that derives Iterable, into_iter
\* yields the N field values in declaration order, from_iter(x.into_iter())
\* builds a struct equal to x, and from_iter on an iterator that yields fewer or
\* more than N items panics and builds nothing.
C26_DerivedIterable ==
    ~IsJointArray(varr) =>
        /\ vop = "into_iter" => vout = << varr.test_field_1, varr.test_field_2 >>
        /\ vop = "into_iter_from_iter" => (vout.ok /\ vout.value = varr)
        /\ vop = "from_iter" =>
              /\ vout.ok <=> Len(varg) = 2
              /\ vout.ok => vout.value = [test_field_1 |-> varg[1], test_field_2 |-> varg[2]]
              /\ ~vout.ok => (Panicked /\ vout.value = << >>)

\* from_iter panicked on an iterator of three items, after a round trip that
\* rebuilt the struct
C26_Witness ==
    /\ varr = [test_field_1 |-> 5, test_field_2 |-> -5]
    /\ vop = "from_iter"
    /\ Len(varg) = 3
    /\ Panicked

\* the order the claim gives: head, left arm, left leg, right arm, right leg, hands
IterationOrder ==
    << "head_yaw", "head_pitch" >>
    \o << "left_shoulder_pitch", "left_shoulder_roll", "left_elbow_yaw", "left_elbow_roll",
          "left_wrist_yaw" >>
    \o << "left_hip_yaw_pitch", "left_hip_roll", "left_hip_pitch", "left_knee_pitch",
          "left_ankle_pitch", "left_ankle_roll" >>
    \o << "right_shoulder_pitch", "right_shoulder_roll", "right_elbow_yaw",
          "right_elbow_roll", "right_wrist_yaw" >>
    \o << "right_hip_roll", "right_hip_pitch", "right_knee_pitch", "right_ankle_pitch",
          "right_ankle_roll" >>
    \o << "left_hand", "right_hand" >>

\* C27: JointArrayIterator is a machine of 26 states: from iter() on, the calls of
\* next() yield exactly 25 references, to head (yaw, pitch), left arm (5), left leg
\* (6, hip_yaw_pitch first), right arm (5), right leg (5), left_hand, right_hand in
\* that order, and every later call returns None: End is absorbing.
C27_IteratorOrder ==
    vit # "none" =>
        /\ vit \in JointArrayField
        /\ Cardinality(JointArrayField) = 26
        /\ \A k \in 1..Len(vyield) :
              IF k <= 25 THEN vyield[k] = Some(varr[IterationOrder[k]])
                         ELSE vyield[k] = None
        /\ Len(vyield) >= 25 <=> vit = "End"

\* 27 calls of next() on an array whose fields all differ: 25 references, then
\* None twice
C27_Witness ==
    /\ varr = CustomJoints
    /\ Len(vyield) = 27
    /\ vyield[1] = Some(10)
    /\ vyield[25] = Some(34)
    /\ vyield[26] = None
    /\ vyield[27] = None
    /\ vit = "End"

HeadFields == {"head_yaw", "head_pitch"}

LeftArmFields ==
    {"left_shoulder_pitch", "left_shoulder_roll", "left_elbow_yaw", "left_elbow_roll",
     "left_wrist_yaw", "left_hand"}

RightArmFields ==
    {"right_shoulder_pitch", "right_shoulder_roll", "right_elbow_yaw", "right_elbow_roll",
     "right_wrist_yaw", "right_hand"}

LeftLegFields ==
    {"left_hip_yaw_pitch", "left_hip_roll", "left_hip_pitch", "left_knee_pitch",
     "left_ankle_pitch", "left_ankle_roll"}

RightLegFields ==
    {"right_hip_roll", "right_hip_pitch", "right_knee_pitch", "right_ankle_pitch",
     "right_ankle_roll"}

\* the builder fields that belong to a group
GroupFields(g) ==
    CASE g = "head"      -> HeadFields
      [] g = "left_arm"  -> LeftArmFields
      [] g = "right_arm" -> RightArmFields
      [] g = "left_leg"  -> LeftLegFields
      [] g = "right_leg" -> RightLegFields
      [] g = "leg"       -> LeftLegFields \cup RightLegFields
      [] g = "arm"       -> LeftArmFields \cup RightArmFields

\* C29: each group setter of the JointArrayBuilder sets the fields of its own group
\* (to Some of the joint handed in) and leaves every other builder field as it was;
\* the five groups are pairwise disjoint and cover the 25 joints, the hands in the
\* arms and hip_yaw_pitch in the left leg only; right_leg_joints never changes
\* left_hip_yaw_pitch; leg_joints and arm_joints equal the left setter followed by
\* the right setter.
C29_SetterFrames ==
    /\ \A a, b \in GroupNames : a # b => GroupFields(a) \cap GroupFields(b) = {}
    /\ UNION { GroupFields(g) : g \in GroupNames } = JointNames
    /\ Cardinality(JointNames) = 25
    /\ "left_hand" \in GroupFields("left_arm")
    /\ "right_hand" \in GroupFields("right_arm")
    /\ \A g \in GroupNames : "left_hip_yaw_pitch" \in GroupFields(g) <=> g = "left_leg"
    /\ \A g \in SetterNames :
          vop = SetterOp(g) =>
              \A f \in JointNames :
                  vout[f] = IF f \in GroupFields(g) THEN Some(varr[f])
                            ELSE varg.builder[f]
    /\ vop = "builder.right_leg_joints" =>
          vout.left_hip_yaw_pitch = varg.builder.left_hip_yaw_pitch
    /\ vop = "builder.leg_joints" =>
          vout = JointArrayBuilder_right_leg_joints(
                     JointArrayBuilder_left_leg_joints(varg.builder, varg.joints.left_leg),
                     varg.joints.right_leg)
    /\ vop = "builder.arm_joints" =>
          vout = JointArrayBuilder_right_arm_joints(
                     JointArrayBuilder_left_arm_joints(varg.builder, varg.joints.left_arm),
                     varg.joints.right_arm)

\* right_leg_joints was called with the right leg of the array of distinct values,
\* on a builder whose fields were all Some(0) or set by an earlier setter
C29_Witness ==
    /\ vop = "builder.right_leg_joints"
    /\ varr = CustomJoints
    /\ varg.builder.left_hip_yaw_pitch = Some(0)
    /\ vout.left_hip_yaw_pitch = Some(0)
    /\ vout.right_hip_roll = Some(CustomJoints.right_hip_roll)
    /\ vn = MaxViewOps

\* the joint field index i denotes, after get
FieldAt(i) == JointArray_get(i).field

\* C30: all positional views of JointArray agree on one ordering: for every i in
\* 0..=24, get(i), get_mut(i), as_array()[i], as_array_ref()[i], as_array_mut()[i],
\* to_vec()[i] and the i-th item of into_iter() denote the same joint field, and
\* try_from(slice) assigns slice[i] to that same field.
C30_ViewsAgree ==
    IsJointArray(varr) =>
        \A i \in ArrayIndices :
            /\ JointArray_get(i).some
            /\ (vop = "get" /\ varg = i) => vout = Some(Borrow(varr, FieldAt(i)))
            /\ (vop = "get_mut" /\ varg.index = i) =>
                  vout = [varr EXCEPT ![FieldAt(i)] = varg.value]
            /\ vop = "as_array" => vout[i + 1] = varr[FieldAt(i)]
            /\ vop = "as_array_ref" => vout[i + 1] = Borrow(varr, FieldAt(i))
            /\ (vop = "as_array_mut" /\ varg.index = i) =>
                  vout = [varr EXCEPT ![FieldAt(i)] = varg.value]
            /\ vop = "to_vec" => vout[i + 1] = varr[FieldAt(i)]
            /\ vop = "JointArray::into_iter" => vout[i + 1] = varr[FieldAt(i)]
            /\ vop = "&JointArray::into_iter" => vout[i + 1] = Borrow(varr, FieldAt(i))
            /\ (vop = "try_from" /\ vout.ok) => vout.value[FieldAt(i)] = varg[i + 1]

\* the last element of as_array_mut() was written on the array of distinct values,
\* and the write landed in right_hand
C30_Witness ==
    /\ varr = CustomJoints
    /\ vop = "as_array_mut"
    /\ varg.index = JointCount - 1
    /\ vout.right_hand = varg.value
    /\ vout.right_hand # varr.right_hand
    /\ vout.left_hand = varr.left_hand

====
